---- MODULE Spec2Model ----
(***************************************************************************)
(* LocalRAG: hybrid retrieval, fusion, deduplication and answer assembly.  *)
(*                                                                         *)
(* Scores are exact rationals <<n, d>> (d > 0, reduced), so that the       *)
(* min-max normalisation and the weighted sum are computed as the code     *)
(* computes them and two accumulated scores are equal exactly when the     *)
(* arithmetic makes them equal.  Strings are sequences of one-character    *)
(* strings, so that strip(), split("\n"), lower(), len() and slicing are   *)
(* computed and never assumed.                                             *)
(***************************************************************************)
EXTENDS Integers, Sequences, FiniteSets, TLC

\* ------------------------------------------------------------------ bounds
\* most results the lexical and the dense search return together
MaxResults == 4
\* longest list of sections handed to advanced_deduplication
MaxSections == 4
\* longest list of search results handed to generate_response
MaxHits == 2
\* most results one search adapter returns to the pipeline
MaxFound == 2
\* most words and separators a document handed to the chunker is made of
MaxPieces == 5
\* largest configured max_context_length
MaxContextLength == 60

VARIABLES
    \* HybridSearchService (src/app/services/search.py)
    bm25_results,      \* the lexical list, a sequence of result dicts
    dense_results,     \* the dense list, a sequence of result dicts
    bm25_weight,       \* self.bm25_weight
    dense_weight,      \* self.dense_weight
    final_top_k,       \* self.final_top_k
    combined_scores,   \* the dict combined_scores of the latest call, as its
                       \* items <<chunk_id, score>> in insertion order
    combined_results,  \* <<what the latest combine_results call returned>>,
                       \* << >> before the first call
    previous_results   \* <<what the call before it returned>>, << >> before
                       \* the second call
VARIABLES
    \* advanced_deduplication (src/simple_localrag.py)
    sections,          \* the argument of the call in progress
    section_index,     \* position of the loop "for section in sections"
    unique_sections,
    seen_hashes,
    seen_lines,
    verdicts,          \* how each iteration so far left the loop body
    dedup_pc,          \* "loop" or "returned"
    dedup_calls        \* the finished calls: argument and return value

fusionVars == <<bm25_results, dense_results, bm25_weight, dense_weight,
                final_top_k, combined_scores, combined_results, previous_results>>

dedupVars == <<sections, section_index, unique_sections, seen_hashes, seen_lines,
               verdicts, dedup_pc, dedup_calls>>

VARIABLES
    \* OllamaService.generate_response (src/app/services/llm.py)
    search_results,      \* the argument search_results
    max_context_length,  \* self.max_context_length
    llm_pc,              \* "idle", "check_model", "pull_model", "format",
                         \* "generate", "returned" or "raised"
    requests,            \* the HTTP requests sent to Ollama, in order
    context,             \* the local context
    llm_response,        \* the dict returned
    llm_error            \* the message of the exception raised

llmVars == <<search_results, max_context_length, llm_pc, requests, context,
             llm_response, llm_error>>

VARIABLES
    \* one request to /ask: RAGPipeline.process_question (src/app/api/ask.py)
    \* or the demo handler ask_question (src/simple_localrag.py)
    handler,                \* "process_question" or "ask_question"
    ask_pc,                 \* "start", "rerank", "deduplicate", "generate",
                            \* "generating", "returned" or "raised"
    trace,                  \* the stages called so far, in call order
    CHUNK_STORE,            \* the demo's chunk store, as the set of its chunks
    initial_results,        \* what the search returned
    reranked_results,
    deduplicated_sections,
    generator_input,        \* the passages the generator was called with
    ask_response,           \* the dict returned
    ask_error               \* the exception raised

askVars == <<handler, ask_pc, trace, CHUNK_STORE, initial_results, reranked_results,
             deduplicated_sections, generator_input, ask_response, ask_error>>

VARIABLES
    \* one call HybridSearchService.search (src/app/services/search.py)
    es_hits,         \* what Elasticsearch answers, if it answers
    qdrant_hits,     \* what Qdrant answers, if it answers
    bm25_task,       \* es_service.search_chunks: "idle", "pending",
                     \* "awaiting", "done" or "failed"
    dense_task,      \* vector_service.search_similar_chunks: "idle",
                     \* "pending", "done" or "failed"
    bm25_found,      \* the list the lexical task returned
    dense_found,     \* the list the dense task returned
    search_pc,       \* "idle", "gather", "returned" or "raised"
    combine_calls,   \* the calls of combine_results: the task states and
                     \* the two arguments of each
    search_output,   \* the pair (combined_results, timing_info) returned
    search_error     \* the exception search re-raised

searchVars == <<es_hits, qdrant_hits, bm25_task, dense_task, bm25_found, dense_found,
                search_pc, combine_calls, search_output, search_error>>

VARIABLES
    \* TextChunker (src/app/services/chunking.py)
    chunker,         \* self: chunk_size, overlap, min_chunk_size, separators
    document_text,   \* the argument text of create_chunks
    chunker_pc,      \* "idle", "ready" or "returned"
    closed_chunks,   \* every chunk text the loops closed, kept or discarded,
                     \* with the number of its leading overlap words and the
                     \* parts its other words came from
    doc_chunks       \* the chunk dicts create_chunks returned

chunkVars == <<chunker, document_text, chunker_pc, closed_chunks, doc_chunks>>

VARIABLES
    \* semantic_reranker_with_rules (src/simple_localrag.py) on its own
    rule_question,       \* the argument question
    rule_question_type,  \* the argument question_type
    rule_chunks,         \* the argument chunks
    rule_pc,             \* "idle", "ready" or "returned"
    rule_output          \* the list the call returned

rulesVars == <<rule_question, rule_question_type, rule_chunks, rule_pc, rule_output>>

VARIABLES
    \* RerankerService (src/app/services/reranker.py) on its own
    reranker_top_k,   \* self.top_k
    rerank_input,     \* the argument search_results of rerank_results
    rerank_top_k,     \* the argument top_k: None or Some(n)
    model_loaded,     \* self._model_loaded
    model_scores,     \* what compute_score returned, one score per pair
    reranker_pc,      \* "idle", "ready", "returned" or "raised"
    rerank_output     \* the list rerank_results returned

rerankerVars == <<reranker_top_k, rerank_input, rerank_top_k, model_loaded, model_scores,
                  reranker_pc, rerank_output>>

VARIABLES
    \* POST /ingest (src/app/api/ingest.py) with the stores it writes to
    documents,        \* the rows of the table documents
    qdrant_points,    \* the payloads of the points of the Qdrant collection
    es_docs,          \* the documents of the Elasticsearch index
    uuid_count,       \* how many values uuid.uuid4() has handed out
    disk,             \* what each path holds for the parser
    ingest_paths,     \* request.paths
    delete_missing,   \* request.delete_missing
    ingest_pc,        \* "idle", "validate", "loop", "delete", "respond",
                      \* "returned" or "rejected"
    path_index,       \* the position of the loop "for path in request.paths"
    ingest_results,   \* results
    ingest_errors,    \* errors
    indexed_count,
    skipped_count,
    ingest_doc_ids,   \* doc_ids
    deleted_count,
    deleted_log,      \* the (doc_id, path) of the log lines "Deleted missing document"
    ingest_response   \* the IngestResponse or the HTTPException

ingestVars == <<documents, qdrant_points, es_docs, uuid_count, disk, ingest_paths,
                delete_missing, ingest_pc, path_index, ingest_results, ingest_errors,
                indexed_count, skipped_count, ingest_doc_ids, deleted_count, deleted_log,
                ingest_response>>

VARIABLES
    \* POST /ask (src/app/api/ask.py), the endpoint around the pipeline
    request_question,    \* request.question
    endpoint_pc,         \* "idle", "validate", "pipeline", "returned" or "raised"
    pipeline_exception,  \* None, or Some(str(e)) of what process_question raised
    http_response        \* the AskResponse or the HTTPException of the endpoint

endpointVars == <<request_question, endpoint_pc, pipeline_exception, http_response>>

VARIABLES
    \* the lazily loaded models of RerankerService and EmbeddingService
    \* (src/app/services/reranker.py, embeddings.py) under concurrent requests
    model_flag,       \* self._model_loaded of each service
    model_handle,     \* self.model of each service: None, or Some(n) for the
                      \* n-th model object constructed
    load_calls,       \* how often the model constructor was called, per service
    request_pc,       \* where each request of process_question stands: "search",
                      \* "rerank", "generate", "done" or "failed"
    request_error,    \* the exception the request's call raised, "" if none
    request_count     \* how many requests have been started

loaderVars == <<model_flag, model_handle, load_calls, request_pc, request_error,
                request_count>>

VARIABLES
    \* the in-memory stores of the demo (src/simple_localrag.py) under POST
    \* /ingest and DELETE /documents/{doc_id}; the chunk store is CHUNK_STORE
    DOCUMENT_STORE,   \* the dict doc_id -> doc_data
    store_disk,       \* the content of each path, or "missing"; the files
                      \* stay as they are over the requests
    store_pc,         \* "idle", or "ingest" inside the loop of ingest_documents
    store_paths,      \* request.paths
    store_index,      \* the position of the loop "for file_path in request.paths"
    store_counts,     \* indexed_count, skipped_count and errors of the request
    store_response,   \* what the last request returned or raised
    store_requests    \* how many requests have been served

storeVars == <<DOCUMENT_STORE, store_disk, store_pc, store_paths, store_index,
               store_counts, store_response, store_requests>>

\* the components added last
lateVars == <<loaderVars, storeVars>>

\* the components added after the /ask pipeline
extVars == <<searchVars, chunkVars, rulesVars, rerankerVars, ingestVars, endpointVars,
             lateVars>>

vars == <<fusionVars, dedupVars, llmVars, askVars, extVars>>

\* Each component is checked under its own specification; the components
\* that a specification does not run stay as constructed.
FusionIdle ==
    /\ bm25_results = <<>> /\ dense_results = <<>>
    /\ bm25_weight = <<3, 10>> /\ dense_weight = <<7, 10>>
    /\ final_top_k = 10
    /\ combined_scores = <<>> /\ combined_results = <<>> /\ previous_results = <<>>

DedupIdle ==
    /\ sections = <<>> /\ section_index = 1
    /\ unique_sections = <<>> /\ seen_hashes = {} /\ seen_lines = {}
    /\ verdicts = <<>> /\ dedup_pc = "loop" /\ dedup_calls = <<>>

NoResponse ==
    [answer |-> "", citations |-> <<>>, context_used |-> <<>>,
     context_length |-> 0, search_results_used |-> 0]

LlmIdle ==
    /\ search_results = <<>> /\ max_context_length = 2500
    /\ llm_pc = "idle" /\ requests = <<>> /\ context = <<>>
    /\ llm_response = NoResponse /\ llm_error = ""

NoAskResponse ==
    [answer |-> "", citations |-> <<>>, rerank_time_ms |-> 0, generation_time_ms |-> 0,
     found_chunks |-> 0]

AskIdle ==
    /\ handler = "process_question" /\ ask_pc = "idle" /\ trace = <<>>
    /\ CHUNK_STORE = {} /\ initial_results = <<>> /\ reranked_results = <<>>
    /\ deduplicated_sections = <<>> /\ generator_input = <<>>
    /\ ask_response = NoAskResponse /\ ask_error = ""

NoSearchOutput == [results |-> <<>>, timing_info |-> {}]

SearchIdle ==
    /\ es_hits = <<>> /\ qdrant_hits = <<>>
    /\ bm25_task = "idle" /\ dense_task = "idle"
    /\ bm25_found = <<>> /\ dense_found = <<>>
    /\ search_pc = "idle" /\ combine_calls = <<>>
    /\ search_output = NoSearchOutput /\ search_error = ""

\* chunking_config.get(...) defaults
DefaultChunkSize == 1000
DefaultOverlap == 100
DefaultMinChunkSize == 50

DefaultSeparators ==
    <<(<<"\n", "\n">>), (<<"\n">>), (<<".", " ">>), (<<"?", " ">>), (<<"!", " ">>), (<<" ">>)>>

ChunkerIdle ==
    /\ chunker = [chunk_size |-> DefaultChunkSize, overlap |-> DefaultOverlap,
                  min_chunk_size |-> DefaultMinChunkSize, separators |-> DefaultSeparators]
    /\ document_text = <<>> /\ chunker_pc = "idle"
    /\ closed_chunks = <<>> /\ doc_chunks = <<>>

RulesIdle ==
    /\ rule_question = <<>> /\ rule_question_type = "" /\ rule_chunks = <<>>
    /\ rule_pc = "idle" /\ rule_output = <<>>

RerankerIdle ==
    /\ reranker_top_k = 5 /\ rerank_input = <<>> /\ rerank_top_k = <<"none">>
    /\ model_loaded = FALSE /\ model_scores = <<>>
    /\ reranker_pc = "idle" /\ rerank_output = <<>>

NoIngestResponse == [status_code |-> 0]

IngestIdle ==
    /\ documents = {} /\ qdrant_points = {} /\ es_docs = {} /\ uuid_count = 0
    /\ disk = <<>> /\ ingest_paths = <<>> /\ delete_missing = FALSE
    /\ ingest_pc = "idle" /\ path_index = 1
    /\ ingest_results = <<>> /\ ingest_errors = <<>>
    /\ indexed_count = 0 /\ skipped_count = 0 /\ ingest_doc_ids = <<>>
    /\ deleted_count = 0 /\ deleted_log = {}
    /\ ingest_response = NoIngestResponse

NoHttpResponse == [status_code |-> 0, detail |-> <<>>]

EndpointIdle ==
    /\ request_question = <<>> /\ endpoint_pc = "idle"
    /\ pipeline_exception = <<"none">> /\ http_response = NoHttpResponse

Services == {"embedding", "reranker"}

LoaderIdle ==
    /\ model_flag = [s \in Services |-> FALSE]
    /\ model_handle = [s \in Services |-> <<"none">>]
    /\ load_calls = [s \in Services |-> 0]
    /\ request_pc = <<>> /\ request_error = <<>> /\ request_count = 0

NoCounts == [indexed |-> 0, skipped |-> 0, errors |-> <<>>]

StoreIdle ==
    /\ DOCUMENT_STORE = <<>> /\ store_disk = <<>> /\ store_pc = "idle"
    /\ store_paths = <<>> /\ store_index = 1 /\ store_counts = NoCounts
    /\ store_response = <<>> /\ store_requests = 0

LateIdle == LoaderIdle /\ StoreIdle

ExtIdle ==
    /\ SearchIdle /\ ChunkerIdle /\ RulesIdle /\ RerankerIdle /\ IngestIdle /\ EndpointIdle
    /\ LateIdle

\* ------------------------------------------------------------ sequences
SeqsUpTo(S, n) == UNION {[1..k -> S] : k \in 0..n}

Range(s) == {s[i] : i \in 1..Len(s)}

Take(s, n) == SubSeq(s, 1, IF n < Len(s) THEN n ELSE Len(s))

\* ------------------------------------------------------------ rationals
RECURSIVE Gcd(_, _)
Gcd(a, b) == IF b = 0 THEN a ELSE Gcd(b, a % b)

Abs(x) == IF x < 0 THEN -x ELSE x

Rat(n, d) ==
    LET g == Gcd(Abs(n), Abs(d))
        s == IF d < 0 THEN -1 ELSE 1
    IN  <<(s * n) \div g, (s * d) \div g>>

RInt(n) == <<n, 1>>
RAdd(a, b) == Rat(a[1] * b[2] + b[1] * a[2], a[2] * b[2])
RSub(a, b) == Rat(a[1] * b[2] - b[1] * a[2], a[2] * b[2])
RMul(a, b) == Rat(a[1] * b[1], a[2] * b[2])
RDiv(a, b) == Rat(a[1] * b[2], a[2] * b[1])
RLess(a, b) == a[1] * b[2] < b[1] * a[2]
RLeq(a, b) == a[1] * b[2] <= b[1] * a[2]

\* a dict key that is not set
NoScore == <<0, 0>>

\* ------------------------------------------------ HybridSearchService
\* a result dict as the search adapters return it: the keys normalized_score,
\* bm25_score, dense_score and hybrid_score are not set yet
RawResult(id, sc) ==
    [chunk_id |-> id, score |-> RInt(sc), normalized_score |-> NoScore,
     bm25_score |-> NoScore, dense_score |-> NoScore, hybrid_score |-> NoScore]

RMin(S) == CHOOSE m \in S : \A x \in S : RLeq(m, x)
RMax(S) == CHOOSE m \in S : \A x \in S : RLeq(x, m)

\* a normalize_scores whose equal-scores branch gives 0 instead of max_score
normalize_scores_floor(results, max_score) ==
    IF results = <<>> THEN results
    ELSE LET scores == {results[i].score : i \in 1..Len(results)}
             min_score == RMin(scores)
             score_range == RSub(RMax(scores), min_score)
         IN  [i \in 1..Len(results) |->
                [results[i] EXCEPT !.normalized_score =
                    IF score_range = RInt(0)
                    THEN RInt(0)
                    ELSE RMul(RDiv(RSub(results[i].score, min_score), score_range),
                              max_score)]]

\* normalize_scores: sets normalized_score on every dict of the list (in place)
normalize_scores(results, max_score) ==
    IF results = <<>> THEN results
    ELSE LET scores == {results[i].score : i \in 1..Len(results)}
             min_score == RMin(scores)
             score_range == RSub(RMax(scores), min_score)
         IN  [i \in 1..Len(results) |->
                [results[i] EXCEPT !.normalized_score =
                    IF score_range = RInt(0)
                    THEN max_score
                    ELSE RMul(RDiv(RSub(results[i].score, min_score), score_range),
                              max_score)]]

\* The state of one combine_results call: the two lists (the dicts are shared
\* with the caller, list.copy() is shallow), combined_scores as an insertion
\* ordered dict (keys + values) and chunk_data as references into the lists.
CombineStart(bm25, dense) ==
    [bm25 |-> normalize_scores(bm25, RInt(1)),
     dense |-> normalize_scores(dense, RInt(1)),
     keys |-> <<>>,
     combined_scores |-> <<>>,
     chunk_data |-> <<>>]

\* an iteration of the lexical loop that leaves the weight out
Bm25IterationUnweighted(st, i, w) ==
    LET result == st.bm25[i]
        id == result.chunk_id
    IN  [st EXCEPT
            !.keys = IF id \in Range(@) THEN @ ELSE Append(@, id),
            !.combined_scores = (id :> result.normalized_score) @@ @,
            !.chunk_data = (id :> <<"bm25", i>>) @@ @,
            !.bm25[i].bm25_score = result.score,
            !.bm25[i].dense_score = RInt(0)]

\* one iteration of "for result in bm25_normalized"
Bm25Iteration(st, i, w) ==
    LET result == st.bm25[i]
        id == result.chunk_id
    IN  [st EXCEPT
            !.keys = IF id \in Range(@) THEN @ ELSE Append(@, id),
            !.combined_scores = (id :> RMul(result.normalized_score, w)) @@ @,
            !.chunk_data = (id :> <<"bm25", i>>) @@ @,
            !.bm25[i].bm25_score = result.score,
            !.bm25[i].dense_score = RInt(0)]

RECURSIVE ProcessBm25(_, _, _)
ProcessBm25(st, i, w) ==
    IF i > Len(st.bm25) THEN st ELSE ProcessBm25(Bm25Iteration(st, i, w), i + 1, w)

\* chunk_data[id]["dense_score"] = v, on the dict chunk_data[id] refers to
SetDenseScore(st, id, v) ==
    LET ref == st.chunk_data[id]
    IN  IF ref[1] = "bm25"
        THEN [st EXCEPT !.bm25[ref[2]].dense_score = v]
        ELSE [st EXCEPT !.dense[ref[2]].dense_score = v]

\* an iteration of the dense loop that assigns where the code adds
DenseIterationAssign(st, j, w) ==
    LET result == st.dense[j]
        id == result.chunk_id
        dense_contribution == RMul(result.normalized_score, w)
    IN  IF id \in DOMAIN st.combined_scores
        THEN SetDenseScore(
                [st EXCEPT !.combined_scores[id] = dense_contribution],
                id, result.score)
        ELSE [st EXCEPT
                !.keys = Append(@, id),
                !.combined_scores = (id :> dense_contribution) @@ @,
                !.chunk_data = (id :> <<"dense", j>>) @@ @,
                !.dense[j].bm25_score = RInt(0),
                !.dense[j].dense_score = result.score]

\* one iteration of "for result in dense_normalized"
DenseIteration(st, j, w) ==
    LET result == st.dense[j]
        id == result.chunk_id
        dense_contribution == RMul(result.normalized_score, w)
    IN  IF id \in DOMAIN st.combined_scores
        THEN SetDenseScore(
                [st EXCEPT !.combined_scores[id] = RAdd(@, dense_contribution)],
                id, result.score)
        ELSE [st EXCEPT
                !.keys = Append(@, id),
                !.combined_scores = (id :> dense_contribution) @@ @,
                !.chunk_data = (id :> <<"dense", j>>) @@ @,
                !.dense[j].bm25_score = RInt(0),
                !.dense[j].dense_score = result.score]

RECURSIVE ProcessDense(_, _, _)
ProcessDense(st, j, w) ==
    IF j > Len(st.dense) THEN st ELSE ProcessDense(DenseIteration(st, j, w), j + 1, w)

\* sorted(items, key=lambda x: x[1], reverse=True): stable, so an item goes
\* behind every item already placed whose score is not smaller
InsertDesc(sorted, item) ==
    LET n == Cardinality({k \in 1..Len(sorted) : RLeq(item[2], sorted[k][2])})
    IN  SubSeq(sorted, 1, n) \o <<item>> \o SubSeq(sorted, n + 1, Len(sorted))

\* a sort that forgets reverse=True (ascending, stable)
InsertAsc(sorted, item) ==
    LET n == Cardinality({k \in 1..Len(sorted) : RLeq(sorted[k][2], item[2])})
    IN  SubSeq(sorted, 1, n) \o <<item>> \o SubSeq(sorted, n + 1, Len(sorted))

InsertSorted(sorted, item) == InsertDesc(sorted, item)

RECURSIVE SortItems(_, _, _)
SortItems(items, k, acc) ==
    IF k > Len(items) THEN acc ELSE SortItems(items, k + 1, InsertSorted(acc, items[k]))

\* combined_scores.items(), in the dict's insertion order
Items(st) == [k \in 1..Len(st.keys) |-> <<st.keys[k], st.combined_scores[st.keys[k]]>>]

sorted_chunks(st) == SortItems(Items(st), 1, <<>>)

ChunkData(st, id) ==
    LET ref == st.chunk_data[id]
    IN  IF ref[1] = "bm25" THEN st.bm25[ref[2]] ELSE st.dense[ref[2]]

\* "Format final results" without the .copy(): score and hybrid_score are
\* written into the caller's dicts
final_results_nocopy(st, top_k) ==
    LET top == Take(sorted_chunks(st), top_k)
        hit(which, i) ==
            {k \in 1..Len(top) : st.chunk_data[top[k][1]] = <<which, i>>}
        write(which, lst) ==
            [i \in 1..Len(lst) |->
                IF hit(which, i) = {} THEN lst[i]
                ELSE LET k == CHOOSE k \in hit(which, i) : TRUE
                     IN  [lst[i] EXCEPT !.score = top[k][2], !.hybrid_score = top[k][2]]]
    IN  [results |-> [k \in 1..Len(top) |->
                        [ChunkData(st, top[k][1]) EXCEPT
                            !.score = top[k][2], !.hybrid_score = top[k][2]]],
         bm25 |-> write("bm25", st.bm25),
         dense |-> write("dense", st.dense)]

\* "Format final results": the top final_top_k items, each a copy of its
\* chunk_data dict with score and hybrid_score set to the combined score
final_results(st, top_k) ==
    LET top == Take(sorted_chunks(st), top_k)
    IN  [results |-> [k \in 1..Len(top) |->
                        [ChunkData(st, top[k][1]) EXCEPT
                            !.score = top[k][2], !.hybrid_score = top[k][2]]],
         bm25 |-> st.bm25,
         dense |-> st.dense]

\* the two loops of combine_results: the dict combined_scores (and chunk_data)
\* when the sort starts
Accumulate(bm25, dense, wb, wd) ==
    ProcessDense(ProcessBm25(CombineStart(bm25, dense), 1, wb), 1, wd)

\* ---- the inputs one fusion call is checked on
ChunkIds == {"a", "b", "c"}
RawScores == {1, 2}
\* (bm25, dense) weights: the defaults 0.3 / 0.7, equal weights, dense only
WeightPairs == {<<Rat(3, 10), Rat(7, 10)>>, <<Rat(1, 2), Rat(1, 2)>>, <<RInt(0), RInt(1)>>}
TopKs == {2}

ResultDicts == {RawResult(id, sc) : id \in ChunkIds, sc \in RawScores}

InitFusion ==
    /\ bm25_results \in SeqsUpTo(ResultDicts, MaxResults)
    /\ dense_results \in SeqsUpTo(ResultDicts, MaxResults - Len(bm25_results))
    /\ \E w \in WeightPairs : bm25_weight = w[1] /\ dense_weight = w[2]
    /\ final_top_k \in TopKs
    /\ combined_scores = <<>>
    /\ combined_results = <<>>
    /\ previous_results = <<>>
    /\ DedupIdle /\ LlmIdle /\ AskIdle /\ ExtIdle

\* one call combine_results(bm25_results, dense_results) on the service: what
\* it returns, and what it leaves in the caller's dicts
CombineResults ==
    /\ LET st == Accumulate(bm25_results, dense_results, bm25_weight, dense_weight)
           out == final_results(st, final_top_k)
       IN  /\ combined_scores' = Items(st)
           /\ combined_results' = <<out.results>>
           /\ bm25_results' = out.bm25
           /\ dense_results' = out.dense
    /\ previous_results' = combined_results
    /\ UNCHANGED <<bm25_weight, dense_weight, final_top_k>>
    /\ UNCHANGED <<dedupVars, llmVars, askVars, extVars>>

NextFusion == CombineResults

SpecFusion == InitFusion /\ [][NextFusion]_vars


\* ------------------------------------------------------------- strings
\* str.strip() and the whitespace it removes
IsSpace(c) == c \in {" ", "\n", "\t", "\r"}

RECURSIVE LStrip(_)
LStrip(s) == IF s # <<>> /\ IsSpace(Head(s)) THEN LStrip(Tail(s)) ELSE s

RECURSIVE RStrip(_)
RStrip(s) ==
    IF s # <<>> /\ IsSpace(s[Len(s)]) THEN RStrip(SubSeq(s, 1, Len(s) - 1)) ELSE s

strip(s) == RStrip(LStrip(s))

\* str.lower()
LowerOf ==
    ("A" :> "a") @@ ("B" :> "b") @@ ("C" :> "c") @@ ("D" :> "d") @@
    ("E" :> "e") @@ ("F" :> "f") @@ ("G" :> "g") @@ ("H" :> "h") @@
    ("I" :> "i") @@ ("J" :> "j") @@ ("K" :> "k") @@ ("L" :> "l") @@
    ("M" :> "m") @@ ("N" :> "n") @@ ("O" :> "o") @@ ("P" :> "p") @@
    ("Q" :> "q") @@ ("R" :> "r") @@ ("S" :> "s") @@ ("T" :> "t") @@
    ("U" :> "u") @@ ("V" :> "v") @@ ("W" :> "w") @@ ("X" :> "x") @@
    ("Y" :> "y") @@ ("Z" :> "z")

lower(s) == [i \in 1..Len(s) |-> IF s[i] \in DOMAIN LowerOf THEN LowerOf[s[i]] ELSE s[i]]

\* str.split("\n"): the pieces between the newlines, empty pieces included
split_lines(s) ==
    LET newlines == {i \in 1..Len(s) : s[i] = "\n"}
        \* the position of the k-th newline; 0 and Len(s) + 1 close the ends
        cut(k) == IF k = 0 THEN 0
                  ELSE IF k > Cardinality(newlines) THEN Len(s) + 1
                  ELSE CHOOSE p \in newlines :
                            Cardinality({q \in newlines : q < p}) = k - 1
    IN  [k \in 1..(Cardinality(newlines) + 1) |-> SubSeq(s, cut(k - 1) + 1, cut(k) - 1)]

\* s[:n]
Slice(s, n) == SubSeq(s, 1, IF n < Len(s) THEN n ELSE Len(s))

\* [f(x) for x in s if p(x)] for the two comprehensions of the deduplicator
RECURSIVE SelectSeq2(_, _)
SelectSeq2(s, keep) ==
    IF s = <<>> THEN <<>>
    ELSE (IF Head(s) \in keep THEN <<Head(s)>> ELSE <<>>) \o SelectSeq2(Tail(s), keep)

\* ------------------------------------------- difflib.SequenceMatcher
\* a second sequence of AutojunkLength or more elements has its "popular"
\* elements, those that occur more than len(b) // 100 + 1 times, dropped
\* from the index b2j that match candidates are looked up in
AutojunkLength == 200

\* bpopular of __chain_b (autojunk=True, isjunk=None)
Popular(b) ==
    IF Len(b) >= AutojunkLength
    THEN {e \in Range(b) :
            Cardinality({k \in 1..Len(b) : b[k] = e}) > (Len(b) \div 100) + 1}
    ELSE {}

\* the two "while ... a[besti-1] == b[bestj-1]" / "a[besti+bestsize] ==
\* b[bestj+bestsize]" loops that grow a block over every matching element
ExtendBack(a, b, i, j, alo, blo) ==
    LET limit == IF i - alo < j - blo THEN i - alo ELSE j - blo
    IN  CHOOSE n \in 0..limit :
            /\ \A m \in 0..(n - 1) : a[i - m] = b[j - m]
            /\ n = limit \/ a[i - n] # b[j - n]

ExtendForward(a, b, i, j, ahi, bhi) ==
    LET limit == IF ahi - i < bhi - j THEN ahi - i + 1 ELSE bhi - j + 1
    IN  CHOOSE n \in 0..limit :
            /\ \A m \in 0..(n - 1) : a[i + m] = b[j + m]
            /\ n = limit \/ a[i + n] # b[j + n]

\* length of the run of indexed (not popular) elements that ends at a[i], b[j]
RECURSIVE IndexedRun(_, _, _, _, _, _, _)
IndexedRun(a, b, i, j, alo, blo, popular) ==
    IF i > alo /\ j > blo /\ a[i] = b[j] /\ b[j] \notin popular
    THEN 1 + IndexedRun(a, b, i - 1, j - 1, alo, blo, popular)
    ELSE 0

\* find_longest_match(alo, ahi, blo, bhi): the longest block of indexed
\* elements, of those the one starting earliest in a, of those the earliest
\* in b, then grown to both sides over matching elements; with no indexed
\* match the empty block at (alo, blo) is grown forward.
\* Indices as in Python: the block is a[i:i+size] == b[j:j+size].
find_longest_match(a, b, alo, ahi, blo, bhi) ==
    LET Run(c, popular) == IndexedRun(a, b, c[1], c[2], alo, blo, popular)
        Indexed(popular) ==
            {c \in ((alo + 1)..ahi) \X ((blo + 1)..bhi) :
                a[c[1]] = b[c[2]] /\ b[c[2]] \notin popular}
        Better(c, sc, d, sd) ==
            \/ sd < sc
            \/ /\ sd = sc
               /\ \/ c[1] < d[1]
                  \/ c[1] = d[1] /\ c[2] <= d[2]
        BestEnd(ends, popular) ==
            IF ends = {} THEN <<alo, blo>>
            ELSE CHOOSE c \in ends :
                    \A d \in ends : Better(c, Run(c, popular), d, Run(d, popular))
        Block(besti, bestj, bestsize, back) ==
            [i |-> besti - back, j |-> bestj - back,
             size |-> bestsize + back
                      + ExtendForward(a, b, besti + bestsize + 1,
                                      bestj + bestsize + 1, ahi, bhi)]
        Grown(besti, bestj, bestsize) ==
            Block(besti, bestj, bestsize, ExtendBack(a, b, besti, bestj, alo, blo))
        From(best, bestsize) ==
            Grown(best[1] - bestsize, best[2] - bestsize, bestsize)
        Sized(best, popular) == From(best, Run(best, popular))
        With(popular) == Sized(BestEnd(Indexed(popular), popular), popular)
    IN  With(Popular(b))

\* get_matching_blocks: the sizes of all blocks, summed
RECURSIVE MatchedChars(_, _, _, _, _, _)
MatchedChars(a, b, alo, ahi, blo, bhi) ==
    LET Around(m) ==
            IF m.size = 0 THEN 0
            ELSE m.size
                 + (IF alo < m.i /\ blo < m.j
                    THEN MatchedChars(a, b, alo, m.i, blo, m.j) ELSE 0)
                 + (IF m.i + m.size < ahi /\ m.j + m.size < bhi
                    THEN MatchedChars(a, b, m.i + m.size, ahi, m.j + m.size, bhi)
                    ELSE 0)
    IN  Around(find_longest_match(a, b, alo, ahi, blo, bhi))

\* SequenceMatcher(None, a, b).ratio() = 2.0 * matches / (len(a) + len(b)),
\* 1.0 for two empty strings
ratio(a, b) ==
    IF Len(a) + Len(b) = 0 THEN RInt(1)
    ELSE Rat(2 * MatchedChars(a, b, 0, Len(a), 0, Len(b)), Len(a) + Len(b))

\* --------------------------------------------- advanced_deduplication
\* len(section_clean) < ShortSectionLimit selects the stricter threshold
ShortSectionLimit == 300
\* the fuzzy level compares the first SimilarityPrefix characters
SimilarityPrefix == 400
\* only lines longer than MinLineLength characters enter seen_lines
MinLineLength == 10

\* hashlib.md5(s.encode("utf-8")).hexdigest(): equal strings have equal
\* digests, and distinct strings are taken to have distinct digests
md5(s) == <<"md5", s>>

\* [line.strip() for line in section_clean.split("\n") if line.strip()]
section_lines_of(section_clean) ==
    LET pieces == split_lines(section_clean)
        stripped == [k \in 1..Len(pieces) |-> strip(pieces[k])]
    IN  SelectSeq2(stripped, Range(stripped) \ {<<>>})

\* sum(1 for line in section_lines if line in seen_lines)
duplicate_lines_of(section_lines, seen) ==
    Cardinality({k \in 1..Len(section_lines) : section_lines[k] \in seen})

\* SequenceMatcher(None, section_clean[:400].lower(), existing[:400].lower()).ratio()
similarity_of(section_clean, existing) ==
    ratio(lower(Slice(section_clean, SimilarityPrefix)),
          lower(Slice(existing, SimilarityPrefix)))

\* one threshold for sections of every length
threshold_of_flat(section_clean) == Rat(90, 100)

\* threshold = 0.90 if len(section_clean) < 300 else 0.85
threshold_of(section_clean) ==
    IF Len(section_clean) < ShortSectionLimit THEN Rat(90, 100) ELSE Rat(85, 100)

\* ---- the sections the deduplicator is checked on
SecPrice ==
    <<"p", "r", "i", "c", "e", ":", " ", "1", "0", " ", "u", "s", "d">>
SecPricePadded ==
    <<" ", " ", "p", "r", "i", "c", "e", ":", " ", "1", "0", " ", "u", "s", "d", "\n">>
SecPriceBang ==
    <<"p", "r", "i", "c", "e", ":", " ", "1", "0", " ", "u", "s", "d", "!">>
SecPriceUpper ==
    <<"P", "r", "i", "c", "e", ":", " ", "1", "0", " ", "U", "S", "D">>
SecPriceEmail ==
    <<"p", "r", "i", "c", "e", ":", " ", "1", "0", " ", "u", "s", "d", "\n", 
     "e", "m", "a", "i", "l", ":", " ", "a", "@", "b", ".", "c", "o">>
SecEmailFax ==
    <<"e", "m", "a", "i", "l", ":", " ", "a", "@", "b", ".", "c", "o", "\n", "f", "a", "x">>
SecEmail ==
    <<"e", "m", "a", "i", "l", ":", " ", "a", "@", "b", ".", "c", "o">>
SecFax == <<"f", "a", "x">>
SecBlank == <<" ", "\n">>
SecEmpty == <<>>

SectionPool ==
    {SecPrice, SecPricePadded, SecPriceBang, SecPriceUpper, SecPriceEmail,
     SecEmailFax, SecEmail, SecFax, SecBlank, SecEmpty}

\* ---- sections around the 300-character limit of the threshold, the
\* 400-character prefix of the comparison and the 200-character autojunk limit
Repeat(c, n) == [i \in 1..n |-> c]
\* 300 characters
SecLong == <<"x">> \o Repeat("a", 299)
\* 300 characters, the last 40 differ from SecLong
SecLongTail == <<"x">> \o Repeat("a", 259) \o Repeat("b", 40)
\* 299 characters, the last 40 differ from SecLong
SecAlmostLong == <<"x">> \o Repeat("a", 258) \o Repeat("b", 40)
\* 450 characters, SecLong followed by 150 more
SecLongRun == <<"x">> \o Repeat("a", 299) \o Repeat("c", 150)

LongSectionPool == {SecLong, SecLongTail, SecAlmostLong, SecLongRun}

StrippedPool == {strip(s) : s \in SectionPool}

\* the similarity of every two trimmed sections of a pool, computed once
PoolSimilarity ==
    {<<p[1], p[2], similarity_of(p[1], p[2])>> :
        p \in (StrippedPool \X StrippedPool) \cup (LongSectionPool \X LongSectionPool)}

Similarity(section_clean, existing) ==
    IF \/ section_clean \in StrippedPool /\ existing \in StrippedPool
       \/ section_clean \in LongSectionPool /\ existing \in LongSectionPool
    THEN (CHOOSE t \in PoolSimilarity : t[1] = section_clean /\ t[2] = existing)[3]
    ELSE similarity_of(section_clean, existing)

\* the loop "for existing in unique_sections": is_similar
is_similar_to(section_clean, unique) ==
    \E k \in 1..Len(unique) :
        RLess(threshold_of(section_clean), Similarity(section_clean, unique[k]))

\* a loop body whose three sets are created inside the loop: every section
\* is judged against nothing
VerdictFresh(section, unique, hashes, seen) ==
    IF strip(section) = <<>> THEN "empty" ELSE "kept"

\* which way one iteration of "for section in sections" leaves the body:
\* "empty", "hash", "lines" and "fuzzy" are the four continues / the failed
\* "if not is_similar", "kept" is the append
Verdict(section, unique, hashes, seen) ==
    LET section_clean == strip(section)
        section_lines == section_lines_of(section_clean)
    IN  IF section_clean = <<>> THEN "empty"
        ELSE IF md5(section_clean) \in hashes THEN "hash"
        ELSE IF /\ section_lines # <<>>
                /\ RLess(Rat(1, 2),
                         Rat(duplicate_lines_of(section_lines, seen), Len(section_lines)))
             THEN "lines"
        ELSE IF is_similar_to(section_clean, unique) THEN "fuzzy"
        ELSE "kept"

\* unique_sections.insert(0, ...) instead of append
KeepFirst(unique, section) == <<strip(section)>> \o unique

\* unique_sections.append(section) instead of append(section_clean)
KeepRaw(unique, section) == Append(unique, section)

\* unique_sections.append(section_clean)
Keep(unique, section) == Append(unique, strip(section))

\* an iteration that adds every line of an accepted section to seen_lines
DedupIterationAllLines(st, section) ==
    LET v == Verdict(section, st.unique_sections, st.seen_hashes, st.seen_lines)
        section_clean == strip(section)
    IN  IF v = "kept"
        THEN [unique_sections |-> Keep(st.unique_sections, section),
              seen_hashes |-> st.seen_hashes \cup {md5(section_clean)},
              seen_lines |-> st.seen_lines \cup
                    Range(section_lines_of(section_clean)),
              verdicts |-> Append(st.verdicts, v)]
        ELSE [st EXCEPT !.verdicts = Append(@, v)]

\* one iteration of the loop on the locals st = [unique_sections,
\* seen_hashes, seen_lines, verdicts]
DedupIteration(st, section) ==
    LET v == Verdict(section, st.unique_sections, st.seen_hashes, st.seen_lines)
        section_clean == strip(section)
    IN  IF v = "kept"
        THEN [unique_sections |-> Keep(st.unique_sections, section),
              seen_hashes |-> st.seen_hashes \cup {md5(section_clean)},
              seen_lines |-> st.seen_lines \cup
                    {l \in Range(section_lines_of(section_clean)) : Len(l) > MinLineLength},
              verdicts |-> Append(st.verdicts, v)]
        ELSE [st EXCEPT !.verdicts = Append(@, v)]

DedupLocals == [unique_sections |-> <<>>, seen_hashes |-> {}, seen_lines |-> {},
                verdicts |-> <<>>]

RECURSIVE DedupLoop(_, _, _)
DedupLoop(st, sections_arg, i) ==
    IF i > Len(sections_arg) THEN st
    ELSE DedupLoop(DedupIteration(st, sections_arg[i]), sections_arg, i + 1)

\* advanced_deduplication(sections); "if not sections: return sections"
advanced_deduplication(sections_arg) ==
    IF sections_arg = <<>> THEN sections_arg
    ELSE DedupLoop(DedupLocals, sections_arg, 1).unique_sections

InitDedup ==
    /\ sections \in SeqsUpTo(SectionPool, MaxSections)
                      \cup SeqsUpTo(LongSectionPool, MaxSections)
    /\ section_index = 1
    /\ unique_sections = <<>>
    /\ seen_hashes = {}
    /\ seen_lines = {}
    /\ verdicts = <<>>
    /\ dedup_pc = "loop"
    /\ dedup_calls = <<>>
    /\ FusionIdle /\ LlmIdle /\ AskIdle /\ ExtIdle

\* one iteration of "for section in sections"
DedupSection ==
    /\ dedup_pc = "loop"
    /\ section_index <= Len(sections)
    /\ LET st == DedupIteration(
                    [unique_sections |-> unique_sections, seen_hashes |-> seen_hashes,
                     seen_lines |-> seen_lines, verdicts |-> verdicts],
                    sections[section_index])
       IN  /\ unique_sections' = st.unique_sections
           /\ seen_hashes' = st.seen_hashes
           /\ seen_lines' = st.seen_lines
           /\ verdicts' = st.verdicts
    /\ section_index' = section_index + 1
    /\ UNCHANGED <<sections, dedup_pc, dedup_calls>>
    /\ UNCHANGED <<fusionVars, llmVars, askVars, extVars>>

\* "return unique_sections" (for an empty list, "return sections")
DedupReturn ==
    /\ dedup_pc = "loop"
    /\ section_index > Len(sections)
    /\ dedup_pc' = "returned"
    /\ dedup_calls' = Append(dedup_calls, [sections |-> sections,
                                           returned |-> unique_sections])
    /\ UNCHANGED <<sections, section_index, unique_sections, seen_hashes,
                   seen_lines, verdicts>>
    /\ UNCHANGED <<fusionVars, llmVars, askVars, extVars>>

\* the caller passes what the first call returned to a second call
DedupAgain ==
    /\ dedup_pc = "returned"
    /\ Len(dedup_calls) = 1
    /\ sections' = dedup_calls[1].returned
    /\ section_index' = 1
    /\ unique_sections' = <<>>
    /\ seen_hashes' = {}
    /\ seen_lines' = {}
    /\ verdicts' = <<>>
    /\ dedup_pc' = "loop"
    /\ UNCHANGED dedup_calls
    /\ UNCHANGED <<fusionVars, llmVars, askVars, extVars>>

NextDedup == DedupSection \/ DedupReturn \/ DedupAgain

SpecDedup == InitDedup /\ [][NextDedup]_vars

\* ------------------------------------------------------ OllamaService
\* dict values: a key that is missing, a key holding None, a key holding v
Missing == <<"missing">>
None == <<"none">>
Some(v) == <<"some", v>>

\* d.get(key, default)
Get(field, default) == IF field = Missing THEN default ELSE field
\* d.get(key)
GetOrNone(field) == IF field = Missing THEN None ELSE field

\* str(n) for n >= 0
RECURSIVE Decimal(_)
Decimal(n) ==
    LET digit == <<"0", "1", "2", "3", "4", "5", "6", "7", "8", "9">>[(n % 10) + 1]
    IN  IF n < 10 THEN <<digit>> ELSE Append(Decimal(n \div 10), digit)

\* f"{value}" for a string or None
FormatStr(x) == IF x = None THEN <<"N", "o", "n", "e">> ELSE x[2]

\* "if page:" / "if section:": None, 0 and "" are false
TruthyInt(x) == x # None /\ x[2] # 0
TruthyStr(x) == x # None /\ x[2] # <<>>

UnknownDocument == <<"U", "n", "k", "n", "o", "w", "n", " ", "D", "o", "c", "u", "m", "e", "n", "t">>
Unknown == <<"u", "n", "k", "n", "o", "w", "n">>

\* the citation reference of one result (lines 110-122)
citation_info_of(result) ==
    LET metadata == result.metadata
        doc_title == Get(metadata.doc_title, Some(UnknownDocument))
        source == Get(metadata.source, Some(Unknown))
        page == GetOrNone(metadata.page)
        section == GetOrNone(metadata.section)
    IN  <<"[", "D", "o", "c", "u", "m", "e", "n", "t", ":", " ">> \o FormatStr(doc_title)
        \o (IF TruthyInt(page) THEN <<",", " ", "P", "a", "g", "e", " ">> \o Decimal(page[2]) ELSE <<>>)
        \o (IF TruthyStr(section) THEN <<",", " ", "S", "e", "c", "t", "i", "o", "n", ":", " ">> \o section[2] ELSE <<>>)
        \o <<",", " ", "S", "o", "u", "r", "c", "e", ":", " ">> \o FormatStr(source) \o <<"]">>

\* context_chunk = f"{citation_info}\n{chunk_text}\n"
context_chunk_of(result) ==
    citation_info_of(result) \o <<"\n">> \o strip(result.text) \o <<"\n">>

\* "\n".join(parts)
RECURSIVE Join(_)
Join(parts) ==
    IF parts = <<>> THEN <<>>
    ELSE IF Len(parts) = 1 THEN parts[1]
    ELSE parts[1] \o <<"\n">> \o Join(Tail(parts))

\* the loop of format_context from result i on: the parts it appends
RECURSIVE ContextParts(_, _, _, _)
ContextParts(results, i, total_length, limit) ==
    IF i > Len(results) THEN <<>>
    ELSE LET context_chunk == context_chunk_of(results[i])
         IN  IF total_length + Len(context_chunk) > limit
             THEN <<>>
             ELSE <<context_chunk>>
                  \o ContextParts(results, i + 1, total_length + Len(context_chunk), limit)

context_parts_of(results, limit) == ContextParts(results, 1, 0, limit)

format_context(results, limit) ==
    IF results = <<>> THEN <<>> ELSE Join(context_parts_of(results, limit))

\* one citation dict per search result (lines 216-227)
citation_of(result) ==
    [source |-> Get(result.metadata.source, Some(Unknown)),
     doc_title |-> Get(result.metadata.doc_title, Some(UnknownDocument)),
     section |-> GetOrNone(result.metadata.section),
     page |-> GetOrNone(result.metadata.page),
     chunk_id |-> result.chunk_id,
     confidence |-> result.score]

\* a key that leaves the page out
CitationKeySourceOnly(citation) == <<citation.source>>

\* key = (citation["source"], citation.get("page"))
CitationKey(citation) == <<citation.source, citation.page>>

\* "Remove duplicates based on source and page" (lines 230-236)
RECURSIVE UniqueCitations(_, _, _)
UniqueCitations(citations, i, seen) ==
    IF i > Len(citations) THEN <<>>
    ELSE LET key == CitationKey(citations[i])
         IN  IF key \notin seen
             THEN <<citations[i]>> \o UniqueCitations(citations, i + 1, seen \cup {key})
             ELSE UniqueCitations(citations, i + 1, seen)

unique_citations_of(results) ==
    UniqueCitations([i \in 1..Len(results) |-> citation_of(results[i])], 1, {})

\* a test "if not context" that never takes the early return
ContextNeverEmpty(ctx) == FALSE

\* "if not context:"
ContextIsEmpty(ctx) == ctx = <<>>

InsufficientDataAnswer == "Nedostatochno dannyh dlya tochnogo otveta."

\* ---- the search results generate_response is checked on
Hit(id, text, sc, title, source, page, section) ==
    [chunk_id |-> id, text |-> text, score |-> sc,
     metadata |-> [doc_title |-> title, source |-> source, page |-> page,
                   section |-> section]]

HitPool ==
    {Hit("c1", <<"x">>, 3, Some(<<"T">>), Some(<<"a">>), Some(1), None),
     Hit("c2", <<"y", "z">>, 2, Some(<<"T">>), Some(<<"a">>), Some(1), Some(<<"S">>)),
     Hit("c3", <<" ", "x", " ">>, 2, Some(<<"T">>), Some(<<"b">>), None, Some(<<>>)),
     Hit("c4", <<"x">>, 1, Missing, Missing, Missing, Missing),
     Hit("c5", <<"y", "z">>, 1, Some(<<"T">>), Some(<<"a">>), Some(0), None),
     Hit("c6", <<"x">>, 0, None, None, Some(12), None)}

GeneratedTexts == {"", "generated answer"}

InitLlm ==
    /\ search_results \in SeqsUpTo(HitPool, MaxHits)
    /\ max_context_length \in 0..MaxContextLength
    /\ llm_pc = "check_model"
    /\ requests = <<>>
    /\ context = <<>>
    /\ llm_response = NoResponse
    /\ llm_error = ""
    /\ FusionIdle /\ DedupIdle /\ AskIdle /\ ExtIdle

\* "if not await self.check_model_availability()": GET /api/tags; a failed
\* request and a model missing from the list both give False
CheckModelAvailability ==
    /\ llm_pc = "check_model"
    /\ requests' = Append(requests, "GET /api/tags")
    /\ \E is_available \in BOOLEAN :
          llm_pc' = IF is_available THEN "format" ELSE "pull_model"
    /\ UNCHANGED <<search_results, max_context_length, context, llm_response, llm_error>>
    /\ UNCHANGED <<fusionVars, dedupVars, askVars, extVars>>

\* "if not await self.pull_model(): raise ValueError(...)": POST /api/pull
PullModel ==
    /\ llm_pc = "pull_model"
    /\ requests' = Append(requests, "POST /api/pull")
    /\ \E pulled \in BOOLEAN :
          IF pulled
          THEN llm_pc' = "format" /\ UNCHANGED llm_error
          ELSE /\ llm_pc' = "raised"
               /\ llm_error' = "Model is not available and could not be pulled"
    /\ UNCHANGED <<search_results, max_context_length, context, llm_response>>
    /\ UNCHANGED <<fusionVars, dedupVars, askVars, extVars>>

\* context = self.format_context(search_results); "if not context: return"
FormatContext ==
    /\ llm_pc = "format"
    /\ context' = format_context(search_results, max_context_length)
    /\ IF ContextIsEmpty(context')
       THEN /\ llm_pc' = "returned"
            /\ llm_response' = [answer |-> InsufficientDataAnswer, citations |-> <<>>,
                                context_used |-> <<>>, context_length |-> 0,
                                search_results_used |-> 0]
       ELSE /\ llm_pc' = "generate"
            /\ UNCHANGED llm_response
    /\ UNCHANGED <<search_results, max_context_length, requests, llm_error>>
    /\ UNCHANGED <<fusionVars, dedupVars, askVars, extVars>>

\* POST /api/generate, then the citations and the return (lines 201-263);
\* raise_for_status and the 60 s timeout raise instead
Generate ==
    /\ llm_pc = "generate"
    /\ requests' = Append(requests, "POST /api/generate")
    /\ \/ /\ \E generated_text \in GeneratedTexts :
                llm_response' = [answer |-> generated_text,
                                 citations |-> unique_citations_of(search_results),
                                 context_used |-> context,
                                 context_length |-> Len(context),
                                 search_results_used |-> Len(search_results)]
          /\ llm_pc' = "returned"
          /\ UNCHANGED llm_error
       \/ /\ \E error \in {"timeout", "connection failed", "status 500"} :
                llm_error' = error
          /\ llm_pc' = "raised"
          /\ UNCHANGED llm_response
    /\ UNCHANGED <<search_results, max_context_length, context>>
    /\ UNCHANGED <<fusionVars, dedupVars, askVars, extVars>>

NextLlm == CheckModelAvailability \/ PullModel \/ FormatContext \/ Generate

SpecLlm == InitLlm /\ [][NextLlm]_vars

\* ---------------------------------------------------------- /ask
\* answers of the two early returns
NoDocumentsAnswer == "Ne naideno relevantnyh dokumentov dlya otveta na vash vopros."
NoInformationAnswer ==
    "K sozhaleniyu, ya ne nashel relevantnoi informacii dlya otveta na vash vopros v zagruzhennyh dokumentah."

\* reranker_config.get("top_k", 5)
RerankTopK == 5
\* simple_search(..., top_k=10)
SimpleSearchTopK == 10
\* reranked_results[:7], reranked_results[:5]
DedupTop == 7
FinalTop == 5
\* result["text"][:200]
PreviewLength == 200

\* a measured duration in milliseconds
ElapsedMs == {0, 12}

\* permutation that sorts keys descending and keeps equal keys in order
\* (list.sort / sorted with reverse=True)
RECURSIVE StableDescOrder(_, _, _)
StableDescOrder(keys, k, acc) ==
    IF k > Len(keys) THEN acc
    ELSE LET n == Cardinality({p \in 1..Len(acc) : RLeq(keys[k], keys[acc[p]])})
         IN  StableDescOrder(keys, k + 1,
                             SubSeq(acc, 1, n) \o <<k>> \o SubSeq(acc, n + 1, Len(acc)))

\* "if not search_results:" with an early return that is never taken
SomeResultsAlways(results) == FALSE

\* "if not search_results:"
NoResults(results) == results = <<>>

\* a result dict of a search adapter, with the text and the metadata
FoundResult(hit) ==
    [chunk_id |-> hit.chunk_id, text |-> hit.text, metadata |-> hit.metadata,
     score |-> RInt(hit.score), normalized_score |-> NoScore,
     bm25_score |-> NoScore, dense_score |-> NoScore, hybrid_score |-> NoScore,
     rerank_score |-> NoScore, original_score |-> NoScore]

\* what an adapter can return: c1 and c4 hold the same text under two chunk
\* ids, c3 holds it with blanks around it
FoundPool ==
    {FoundResult(hit) : hit \in {h \in HitPool : h.chunk_id \in {"c1", "c2", "c3", "c4"}}}

DistinctSeqs(S, n) ==
    {q \in SeqsUpTo(S, n) : \A i \in 1..Len(q) : \A j \in (i + 1)..Len(q) : q[i] # q[j]}

\* the scores the cross-encoder can give a (query, text) pair
RerankScores == {RInt(0), RInt(1)}

\* rerank_results without "reranked_results.sort(...)"
rerank_results_unsorted(results, scores, top_k) ==
    IF results = <<>> THEN <<>>
    ELSE Take([i \in 1..Len(results) |->
                  [results[i] EXCEPT !.rerank_score = scores[i],
                                     !.original_score = results[i].score,
                                     !.score = scores[i]]], top_k)

\* RerankerService.rerank_results(query, search_results) once the model gave
\* scores
rerank_results(results, scores, top_k) ==
    IF results = <<>> THEN <<>>
    ELSE LET reranked == [i \in 1..Len(results) |->
                            [results[i] EXCEPT !.rerank_score = scores[i],
                                               !.original_score = results[i].score,
                                               !.score = scores[i]]]
             order == StableDescOrder(scores, 1, <<>>)
         IN  Take([k \in 1..Len(order) |-> reranked[order[k]]], top_k)

\* ---- the demo
DemoChunk(id, text, source, sc) ==
    [chunk_id |-> id, text |-> text, source |-> source, score |-> RInt(sc),
     reranked_score |-> NoScore, original_score |-> NoScore]

DemoChunks ==
    {DemoChunk("d1", <<"x">>, "a.md", 3), DemoChunk("d2", <<"x">>, "b.md", 2),
     DemoChunk("d3", <<" ", "x", " ">>, "a.md", 2), DemoChunk("d4", <<"y", "z">>, "a.md", 1)}

\* the multipliers the rules of semantic_reranker_with_rules give a text
BoostFactors == {RInt(1), RInt(2)}

\* results.sort(key=score, reverse=True); return results[:top_k] over the
\* chunks of the store that match the query
simple_search_results(store, top_k) ==
    {Take(q, top_k) : q \in {q \in DistinctSeqs(store, Cardinality(store)) :
        \A i \in 1..(Len(q) - 1) : RLeq(q[i + 1].score, q[i].score)}}

\* semantic_reranker_with_rules(chunks, question, question_type), the rules
\* giving the text t the multiplier boost[t]
semantic_reranker_with_rules(chunks, boost) ==
    LET reranked == [i \in 1..Len(chunks) |->
                        [chunks[i] EXCEPT
                            !.reranked_score = RMul(chunks[i].score, boost[chunks[i].text]),
                            !.original_score = chunks[i].score]]
        order == StableDescOrder([i \in 1..Len(reranked) |-> reranked[i].reranked_score],
                                 1, <<>>)
    IN  [k \in 1..Len(order) |-> reranked[order[k]]]

\* " ".join(parts)
RECURSIVE JoinWithSpace(_)
JoinWithSpace(parts) ==
    IF parts = <<>> THEN <<>>
    ELSE IF Len(parts) = 1 THEN parts[1]
    ELSE parts[1] \o <<" ">> \o JoinWithSpace(Tail(parts))

\* " ".join([chunk["text"] for chunk in reranked_results[:7]])
combined_text_of(reranked) ==
    LET top == Take(reranked, DedupTop)
    IN  JoinWithSpace([i \in 1..Len(top) |-> top[i].text])

\* "for section in sections" over a str: its characters
CharactersOf(text) == [i \in 1..Len(text) |-> <<text[i]>>]

\* the citation the demo builds from one result
demo_citation_of(result) ==
    [source |-> result.source, chunk_id |-> result.chunk_id,
     relevance_score |-> result.score,
     text_preview |-> IF Len(result.text) > PreviewLength
                      THEN Slice(result.text, PreviewLength) \o <<".", ".", ".">>
                      ELSE result.text]

InitAsk ==
    /\ \/ handler = "process_question" /\ CHUNK_STORE = {}
       \/ handler = "ask_question" /\ CHUNK_STORE \in SUBSET DemoChunks
    /\ ask_pc = "start"
    /\ trace = <<>>
    /\ initial_results = <<>>
    /\ reranked_results = <<>>
    /\ deduplicated_sections = <<>>
    /\ generator_input = <<>>
    /\ ask_response = NoAskResponse
    /\ ask_error = ""
    /\ FusionIdle /\ DedupIdle /\ LlmIdle /\ ExtIdle

\* demo: "if not CHUNK_STORE: raise HTTPException(status_code=400, ...)"
AskReject ==
    /\ handler = "ask_question" /\ ask_pc = "start"
    /\ CHUNK_STORE = {}
    /\ ask_pc' = "raised"
    /\ ask_error' = "400 No documents loaded"
    /\ UNCHANGED <<handler, trace, CHUNK_STORE, initial_results, reranked_results,
                   deduplicated_sections, generator_input, ask_response>>
    /\ UNCHANGED <<fusionVars, dedupVars, llmVars, extVars>>

\* process_question, step 1: await self.search_service.search(question), the
\* two adapters answering and combine_results fusing their lists, then the
\* early return on no results; an exception of the search is re-raised
AskHybridSearch ==
    /\ handler = "process_question" /\ ask_pc = "start"
    /\ trace' = Append(trace, "search")
    /\ \/ /\ \E bm25 \in DistinctSeqs(FoundPool, MaxFound) :
             \E dense \in DistinctSeqs(FoundPool, MaxFound) :
                LET st == Accumulate(bm25, dense, bm25_weight, dense_weight)
                    out == final_results(st, final_top_k)
                IN  /\ bm25_results' = out.bm25
                    /\ dense_results' = out.dense
                    /\ combined_scores' = Items(st)
                    /\ combined_results' = <<out.results>>
                    /\ previous_results' = combined_results
                    /\ initial_results' = out.results
          /\ IF NoResults(initial_results')
             THEN /\ ask_pc' = "returned"
                  /\ ask_response' = [answer |-> NoDocumentsAnswer, citations |-> <<>>,
                                      rerank_time_ms |-> 0, generation_time_ms |-> 0,
                                      found_chunks |-> 0]
             ELSE /\ ask_pc' = "rerank"
                  /\ UNCHANGED ask_response
          /\ UNCHANGED ask_error
       \/ /\ ask_pc' = "raised"
          /\ ask_error' = "search failed"
          /\ UNCHANGED <<bm25_results, dense_results, combined_scores, combined_results,
                         previous_results, initial_results, ask_response>>
    /\ UNCHANGED <<handler, CHUNK_STORE, reranked_results, deduplicated_sections,
                   generator_input>>
    /\ UNCHANGED <<bm25_weight, dense_weight, final_top_k>>
    /\ UNCHANGED <<dedupVars, llmVars, extVars>>

\* process_question, step 2: self.reranker_service.rerank_results(question,
\* search_results); a model that cannot be loaded or scored raises
AskRerank ==
    /\ handler = "process_question" /\ ask_pc = "rerank"
    /\ trace' = Append(trace, "rerank")
    /\ \/ /\ \E scores \in [1..Len(initial_results) -> RerankScores] :
                reranked_results' = rerank_results(initial_results, scores, RerankTopK)
          /\ ask_pc' = "generate"
          /\ UNCHANGED ask_error
       \/ /\ ask_pc' = "raised"
          /\ ask_error' = "reranker failed"
          /\ UNCHANGED reranked_results
    /\ UNCHANGED <<handler, CHUNK_STORE, initial_results, deduplicated_sections,
                   generator_input, ask_response>>
    /\ UNCHANGED <<fusionVars, dedupVars, llmVars, extVars>>

\* process_question, step 3: the call self.llm_service.generate_response(
\* question, reranked_results)
AskGenerateResponse ==
    /\ handler = "process_question" /\ ask_pc = "generate"
    /\ trace' = Append(trace, "generate")
    /\ generator_input' = reranked_results
    /\ search_results' = reranked_results
    /\ llm_pc' = "check_model"
    /\ ask_pc' = "generating"
    /\ UNCHANGED <<handler, CHUNK_STORE, initial_results, reranked_results,
                   deduplicated_sections, ask_response, ask_error>>
    /\ UNCHANGED <<max_context_length, requests, context, llm_response, llm_error>>
    /\ UNCHANGED <<fusionVars, dedupVars, extVars>>

\* process_question: generate_response returned, the response is built
AskReturn ==
    /\ handler = "process_question" /\ ask_pc = "generating"
    /\ llm_pc = "returned"
    /\ \E rerank_time \in ElapsedMs : \E generation_time \in ElapsedMs :
          ask_response' = [answer |-> llm_response.answer,
                           citations |-> llm_response.citations,
                           rerank_time_ms |-> rerank_time,
                           generation_time_ms |-> generation_time,
                           found_chunks |-> Len(initial_results)]
    /\ ask_pc' = "returned"
    /\ UNCHANGED <<handler, trace, CHUNK_STORE, initial_results, reranked_results,
                   deduplicated_sections, generator_input, ask_error>>
    /\ UNCHANGED <<fusionVars, dedupVars, llmVars, extVars>>

\* process_question: generate_response raised, "except Exception: raise"
AskRaise ==
    /\ handler = "process_question" /\ ask_pc = "generating"
    /\ llm_pc = "raised"
    /\ ask_pc' = "raised"
    /\ ask_error' = llm_error
    /\ UNCHANGED <<handler, trace, CHUNK_STORE, initial_results, reranked_results,
                   deduplicated_sections, generator_input, ask_response>>
    /\ UNCHANGED <<fusionVars, dedupVars, llmVars, extVars>>

\* demo, stage 2: initial_results = simple_search(question, CHUNK_STORE, 10)
DemoSearch ==
    /\ handler = "ask_question" /\ ask_pc = "start"
    /\ CHUNK_STORE # {}
    /\ trace' = Append(trace, "search")
    /\ \E matching \in SUBSET CHUNK_STORE :
          initial_results' \in simple_search_results(matching, SimpleSearchTopK)
    /\ ask_pc' = "rerank"
    /\ UNCHANGED <<handler, CHUNK_STORE, reranked_results, deduplicated_sections,
                   generator_input, ask_response, ask_error>>
    /\ UNCHANGED <<fusionVars, dedupVars, llmVars, extVars>>

\* demo, stage 3: reranked_results = semantic_reranker_with_rules(...)
DemoRerank ==
    /\ handler = "ask_question" /\ ask_pc = "rerank"
    /\ trace' = Append(trace, "rerank")
    /\ \E boost \in [{c.text : c \in DemoChunks} -> BoostFactors] :
          reranked_results' = semantic_reranker_with_rules(initial_results, boost)
    /\ ask_pc' = "deduplicate"
    /\ UNCHANGED <<handler, CHUNK_STORE, initial_results, deduplicated_sections,
                   generator_input, ask_response, ask_error>>
    /\ UNCHANGED <<fusionVars, dedupVars, llmVars, extVars>>

\* demo, stage 4: advanced_deduplication(combined_text), search_results =
\* reranked_results[:5] and the early return on no results
DemoDeduplicate ==
    /\ handler = "ask_question" /\ ask_pc = "deduplicate"
    /\ trace' = Append(trace, "deduplicate")
    /\ deduplicated_sections' =
          advanced_deduplication(CharactersOf(combined_text_of(reranked_results)))
    /\ IF NoResults(Take(reranked_results, FinalTop))
       THEN /\ ask_pc' = "returned"
            /\ ask_response' = [answer |-> NoInformationAnswer, citations |-> <<>>,
                                rerank_time_ms |-> 0, generation_time_ms |-> 0,
                                found_chunks |-> 0]
       ELSE /\ ask_pc' = "generate"
            /\ UNCHANGED ask_response
    /\ UNCHANGED <<handler, CHUNK_STORE, initial_results, reranked_results,
                   generator_input, ask_error>>
    /\ UNCHANGED <<fusionVars, dedupVars, llmVars, extVars>>

\* demo: answer = generate_answer_with_ollama(question, search_results), the
\* citations of search_results and the return
DemoGenerate ==
    /\ handler = "ask_question" /\ ask_pc = "generate"
    /\ trace' = Append(trace, "generate")
    /\ generator_input' = Take(reranked_results, FinalTop)
    /\ \E answer \in GeneratedTexts : \E stage3_time \in ElapsedMs : \E gen_time \in ElapsedMs :
          ask_response' = [answer |-> answer,
                           citations |-> [i \in 1..Len(generator_input') |->
                                            demo_citation_of(generator_input'[i])],
                           rerank_time_ms |-> stage3_time,
                           generation_time_ms |-> gen_time,
                           found_chunks |-> Len(generator_input')]
    /\ ask_pc' = "returned"
    /\ UNCHANGED <<handler, CHUNK_STORE, initial_results, reranked_results,
                   deduplicated_sections, ask_error>>
    /\ UNCHANGED <<fusionVars, dedupVars, llmVars, extVars>>

NextAsk ==
    \/ AskReject
    \/ AskHybridSearch \/ AskRerank \/ AskGenerateResponse
    \/ CheckModelAvailability \/ PullModel \/ FormatContext \/ Generate
    \/ AskReturn \/ AskRaise
    \/ DemoSearch \/ DemoRerank \/ DemoDeduplicate \/ DemoGenerate

SpecAsk == InitAsk /\ [][NextAsk]_vars

\* ------------------------------------------- HybridSearchService.search
\* the components a search call leaves alone, besides the fusion state
searchFrame == <<dedupVars, llmVars, askVars, chunkVars, rulesVars, rerankerVars,
    ingestVars, endpointVars,
    lateVars>>

\* the keys of timing_info
TimingKeys == {"bm25_time_ms", "dense_time_ms", "combine_time_ms", "total_time_ms"}

\* a gather that hands over as soon as one of the tasks is done
GatherFirstCompleted(bm25_state, dense_state) ==
    bm25_state = "done" \/ dense_state = "done"

\* "bm25_results, dense_results = await asyncio.gather(bm25_task, dense_task)"
\* resumes with the two lists once both tasks have returned
GatherReady(bm25_state, dense_state) ==
    bm25_state = "done" /\ dense_state = "done"

\* gather raises the first exception of a task
GatherFailed(bm25_state, dense_state) ==
    bm25_state = "failed" \/ dense_state = "failed"

InitSearch ==
    /\ es_hits \in DistinctSeqs(FoundPool, MaxFound)
    /\ qdrant_hits \in DistinctSeqs(FoundPool, MaxFound)
    /\ bm25_task = "pending" /\ dense_task = "pending"
    /\ bm25_found = <<>> /\ dense_found = <<>>
    /\ search_pc = "gather"
    /\ combine_calls = <<>>
    /\ search_output = NoSearchOutput
    /\ search_error = ""
    /\ FusionIdle /\ DedupIdle /\ LlmIdle /\ AskIdle /\ ChunkerIdle /\ RulesIdle
    /\ RerankerIdle /\ IngestIdle /\ EndpointIdle /\ LateIdle

\* search_chunks up to "await self.client.search(...)"
Bm25Send ==
    /\ bm25_task = "pending"
    /\ bm25_task' = "awaiting"
    /\ UNCHANGED <<es_hits, qdrant_hits, dense_task, bm25_found, dense_found, search_pc,
                   combine_calls, search_output, search_error>>
    /\ UNCHANGED <<fusionVars, searchFrame>>

\* search_chunks from the answer of Elasticsearch on: the formatted hits are
\* returned, or the exception is logged and re-raised
Bm25Receive ==
    /\ bm25_task = "awaiting"
    /\ \/ bm25_task' = "done" /\ bm25_found' = es_hits
       \/ bm25_task' = "failed" /\ UNCHANGED bm25_found
    /\ UNCHANGED <<es_hits, qdrant_hits, dense_task, dense_found, search_pc,
                   combine_calls, search_output, search_error>>
    /\ UNCHANGED <<fusionVars, searchFrame>>

\* search_similar_chunks: no await inside, the embedding, the Qdrant query
\* and the formatting run in one piece
DenseSearch ==
    /\ dense_task = "pending"
    /\ \/ dense_task' = "done" /\ dense_found' = qdrant_hits
       \/ dense_task' = "failed" /\ UNCHANGED dense_found
    /\ UNCHANGED <<es_hits, qdrant_hits, bm25_task, bm25_found, search_pc,
                   combine_calls, search_output, search_error>>
    /\ UNCHANGED <<fusionVars, searchFrame>>

\* search after the gather: combine_results and the return of
\* (combined_results, timing_info)
SearchCombine ==
    /\ search_pc = "gather"
    /\ GatherReady(bm25_task, dense_task)
    /\ combine_calls' = Append(combine_calls,
            [bm25_task |-> bm25_task, dense_task |-> dense_task,
             bm25_results |-> bm25_found, dense_results |-> dense_found])
    /\ LET st == Accumulate(bm25_found, dense_found, bm25_weight, dense_weight)
           out == final_results(st, final_top_k)
       IN  /\ combined_scores' = Items(st)
           /\ combined_results' = <<out.results>>
           /\ bm25_results' = out.bm25
           /\ dense_results' = out.dense
           /\ search_output' = [results |-> out.results, timing_info |-> TimingKeys]
    /\ previous_results' = combined_results
    /\ search_pc' = "returned"
    /\ UNCHANGED <<es_hits, qdrant_hits, bm25_task, dense_task, bm25_found, dense_found,
                   search_error>>
    /\ UNCHANGED <<bm25_weight, dense_weight, final_top_k>>
    /\ UNCHANGED searchFrame

\* the gather raised the exception of a task: "except Exception: ... raise"
SearchRaise ==
    /\ search_pc = "gather"
    /\ GatherFailed(bm25_task, dense_task)
    /\ search_error' \in {t \in {"bm25", "dense"} :
            (t = "bm25" /\ bm25_task = "failed") \/ (t = "dense" /\ dense_task = "failed")}
    /\ search_pc' = "raised"
    /\ UNCHANGED <<es_hits, qdrant_hits, bm25_task, dense_task, bm25_found, dense_found,
                   combine_calls, search_output>>
    /\ UNCHANGED <<fusionVars, searchFrame>>

NextSearch == Bm25Send \/ Bm25Receive \/ DenseSearch \/ SearchCombine \/ SearchRaise

SpecSearch == InitSearch /\ [][NextSearch]_vars

\* --------------------------------------------------------- TextChunker
\* the components a chunker call leaves alone
chunkFrame == <<fusionVars, dedupVars, llmVars, askVars, searchVars, rulesVars, rerankerVars,
    ingestVars, endpointVars,
    lateVars>>

\* len(self.tokenizer.encode(text)): the tokenizer is taken to give one token
\* per non-blank character, blanks being merged into the token that follows
count_tokens(text) == Cardinality({i \in 1..Len(text) : ~IsSpace(text[i])})

\* str.split(separator)
RECURSIVE SplitBy(_, _)
SplitBy(text, separator) ==
    LET n == Len(separator)
        found == {i \in 1..(Len(text) - n + 1) : SubSeq(text, i, i + n - 1) = separator}
    IN  IF found = {} THEN <<text>>
        ELSE LET i == CHOOSE i \in found : \A j \in found : i <= j
             IN  <<SubSeq(text, 1, i - 1)>> \o SplitBy(SubSeq(text, i + n, Len(text)), separator)

\* str.split(): the runs of non-blank characters
RECURSIVE WordsFrom(_, _, _)
WordsFrom(text, i, word) ==
    IF i > Len(text) THEN (IF word = <<>> THEN <<>> ELSE <<word>>)
    ELSE IF IsSpace(text[i])
         THEN (IF word = <<>> THEN <<>> ELSE <<word>>) \o WordsFrom(text, i + 1, <<>>)
         ELSE WordsFrom(text, i + 1, Append(word, text[i]))

Words(text) == WordsFrom(text, 1, <<>>)

RECURSIVE Flatten(_)
Flatten(lists) == IF lists = <<>> THEN <<>> ELSE Head(lists) \o Flatten(Tail(lists))

\* a + (" " if a else "") + b
Glue(a, b) == a \o (IF a # <<>> THEN <<" ">> ELSE <<>>) \o b

RECURSIVE split_text_by_separators(_, _, _)
split_text_by_separators(self, text, separators) ==
    IF separators = <<>> THEN <<text>>
    ELSE LET parts == SplitBy(text, Head(separators))
             remaining_separators == Tail(separators)
         IN  IF Len(parts) = 1
             THEN split_text_by_separators(self, text, remaining_separators)
             ELSE Flatten([k \in 1..Len(parts) |->
                    IF count_tokens(parts[k]) > self.chunk_size
                    THEN split_text_by_separators(self, parts[k], remaining_separators)
                    ELSE <<parts[k]>>])

\* the loop "while self.count_tokens(overlap_text) > self.overlap"
RECURSIVE TrimOverlap(_, _)
TrimOverlap(self, overlap_text) ==
    IF count_tokens(overlap_text) > self.overlap /\ Len(Words(overlap_text)) > 1
    THEN TrimOverlap(self, JoinWithSpace(Tail(Words(overlap_text))))
    ELSE overlap_text

\* "Prepare overlap for next chunk" (lines 78-89)
overlap_buffer_of(self, current_chunk) ==
    IF count_tokens(current_chunk) > self.overlap
    THEN TrimOverlap(self, current_chunk)
    ELSE current_chunk

\* "if chunk and self.count_tokens(chunk) >= self.min_chunk_size"
IsKept(self, chunk) == chunk # <<>> /\ count_tokens(chunk) >= self.min_chunk_size

KeepChunk(self, chunk) == IsKept(self, chunk)

\* chunks.append(text) where the code appends, and the record of a text that
\* the code drops; an empty text leaves no record
Close(self, closed, text, lead, parts) ==
    IF text = <<>> THEN closed
    ELSE Append(closed, [text |-> text, lead |-> lead, parts |-> parts,
                         kept |-> KeepChunk(self, text)])

\* a force split that starts the next chunk empty and loses the word
RestartEmpty(word) == <<>>

\* "temp_chunk = word"
Restart(word) == word

\* the loop "for word in words" of the force split on the locals
\* (closed, temp_chunk) and the bookkeeping of temp_chunk
RECURSIVE ForceSplit(_, _, _, _, _)
ForceSplit(self, st, words, k, p) ==
    IF k > Len(words) THEN st
    ELSE LET word == words[k]
             test_chunk == Glue(st.temp_chunk, word)
         IN  IF count_tokens(test_chunk) <= self.chunk_size
             THEN ForceSplit(self, [st EXCEPT !.temp_chunk = test_chunk,
                                              !.parts = @ \cup {p}], words, k + 1, p)
             ELSE ForceSplit(self,
                    [closed |-> Close(self, st.closed, st.temp_chunk, st.lead, st.parts),
                     temp_chunk |-> Restart(word), lead |-> 0, parts |-> {p}],
                    words, k + 1, p)

\* one iteration of "for part in text_parts" on the locals st
PartIteration(self, st, p, raw_part) ==
    LET part == strip(raw_part)
        potential_chunk == Glue(st.current_chunk, part)
    IN  IF part = <<>> THEN st
        ELSE IF count_tokens(potential_chunk) <= self.chunk_size
        THEN [st EXCEPT !.current_chunk = potential_chunk, !.parts = @ \cup {p}]
        ELSE LET saved == KeepChunk(self, st.current_chunk)
                 closed == Close(self, st.closed, st.current_chunk, st.lead, st.parts)
                 overlap_buffer == IF saved THEN overlap_buffer_of(self, st.current_chunk)
                                   ELSE st.overlap_buffer
                 current_chunk == Glue(overlap_buffer, part)
                 lead == Len(Words(overlap_buffer))
             IN  IF count_tokens(current_chunk) > self.chunk_size
                 THEN LET fs == ForceSplit(self,
                                    [closed |-> closed, temp_chunk |-> overlap_buffer,
                                     lead |-> lead, parts |-> {}],
                                    Words(part), 1, p)
                      IN  [closed |-> fs.closed, current_chunk |-> fs.temp_chunk,
                           lead |-> fs.lead, parts |-> fs.parts,
                           overlap_buffer |-> overlap_buffer]
                 ELSE [closed |-> closed, current_chunk |-> current_chunk,
                       lead |-> lead, parts |-> {p}, overlap_buffer |-> overlap_buffer]

RECURSIVE PartLoop(_, _, _, _)
PartLoop(self, st, text_parts, p) ==
    IF p > Len(text_parts) THEN st
    ELSE PartLoop(self, PartIteration(self, st, p, text_parts[p]), text_parts, p + 1)

\* every text create_chunks_with_overlap closes, in order, the final chunk
\* included
closed_chunks_of(self, text_parts) ==
    LET st == PartLoop(self, [closed |-> <<>>, current_chunk |-> <<>>, lead |-> 0,
                              parts |-> {}, overlap_buffer |-> <<>>], text_parts, 1)
    IN  Close(self, st.closed, st.current_chunk, st.lead, st.parts)

RECURSIVE KeptOf(_)
KeptOf(closed) ==
    IF closed = <<>> THEN <<>>
    ELSE (IF Head(closed).kept THEN <<Head(closed)>> ELSE <<>>) \o KeptOf(Tail(closed))

\* create_chunks_with_overlap(text_parts): the texts appended to chunks
create_chunks_with_overlap(self, text_parts) ==
    LET kept == KeptOf(closed_chunks_of(self, text_parts))
    IN  [i \in 1..Len(kept) |-> kept[i].text]

\* char_position before chunk i: the lengths of the chunks before it, + 1 each
RECURSIVE CharPosition(_, _)
CharPosition(chunk_texts, i) ==
    IF i = 1 THEN 0 ELSE CharPosition(chunk_texts, i - 1) + Len(chunk_texts[i - 1]) + 1

\* create_chunks(text, metadata): the chunk dicts
create_chunks(self, text) ==
    LET text_parts == split_text_by_separators(self, text, self.separators)
        chunk_texts == create_chunks_with_overlap(self, text_parts)
    IN  [i \in 1..Len(chunk_texts) |->
            [chunk_index |-> i - 1,
             text |-> chunk_texts[i],
             char_start |-> CharPosition(chunk_texts, i),
             char_end |-> CharPosition(chunk_texts, i) + Len(chunk_texts[i]),
             token_count |-> count_tokens(chunk_texts[i]),
             char_count |-> Len(chunk_texts[i])]]

\* ---- the documents and configurations the chunker is run on
TextPieces == {<<"a">>, <<"b", "b">>, <<"d", "d", "d", "d">>, <<" ">>, <<"\n">>, <<"\t">>}

\* (chunk_size, overlap, min_chunk_size)
ChunkerConfigs == {<<3, 1, 1>>, <<3, 1, 2>>, <<4, 2, 1>>}

InitChunker ==
    /\ \E pieces \in SeqsUpTo(TextPieces, MaxPieces) : document_text = Flatten(pieces)
    /\ \E c \in ChunkerConfigs :
          chunker = [chunk_size |-> c[1], overlap |-> c[2], min_chunk_size |-> c[3],
                     separators |-> DefaultSeparators]
    /\ chunker_pc = "ready"
    /\ closed_chunks = <<>>
    /\ doc_chunks = <<>>
    /\ FusionIdle /\ DedupIdle /\ LlmIdle /\ AskIdle /\ SearchIdle /\ RulesIdle
    /\ RerankerIdle /\ IngestIdle /\ EndpointIdle /\ LateIdle

\* one call create_chunks(document_text, metadata)
CreateChunks ==
    /\ chunker_pc = "ready"
    /\ doc_chunks' = create_chunks(chunker, document_text)
    /\ closed_chunks' =
          closed_chunks_of(chunker,
                           split_text_by_separators(chunker, document_text, chunker.separators))
    /\ chunker_pc' = "returned"
    /\ UNCHANGED <<chunker, document_text>>
    /\ UNCHANGED chunkFrame

NextChunker == CreateChunks

SpecChunker == InitChunker /\ [][NextChunker]_vars

\* ------------------------------- semantic_reranker_with_rules, the rules
\* Strings hold one element per character; a Cyrillic letter is the element
\* "~" followed by its transliteration, so that "in" and lower() work on them
\* as on the characters themselves.
rulesFrame == <<fusionVars, dedupVars, llmVars, askVars, searchVars, chunkVars, rerankerVars,
    ingestVars, endpointVars,
    lateVars>>

MaxRanked == 2

\* specific_features: the keyword lists, in the dict's order
SpecificFeatures ==
    <<<<<<"s", "l", "a", "c", "k">>, <<"~i", "~n", "~t", "~e", "~g", "~r", "~a", "~c", "~i", "~i">>, <<"~p", "~o", "~d", "~d", "~e", "~r", "~zh", "~i", "~v", "~a", "~yu", "~t", "~s", "~ya", ":">>, <<"z", "e", "n", "d", "e", "s", "k">>, <<"s", "a", "l", "e", "s", "f", "o", "r", "c", "e">>>>,
      <<<<"l", "i", "v", "e", " ", "c", "h", "a", "t">>, <<"~v", "~i", "~d", "~zh", "~e", "~t">>, <<"~ch", "~a", "~t">>, <<"~r", "~e", "~a", "~l", "~soft", "~n", "~o", "~m", " ", "~v", "~r", "~e", "~m", "~e", "~n", "~i">>>>,
      <<<<"~d", "~v", "~u", "~h", "~f", "~a", "~k", "~t", "~o", "~r", "~n", "~a", "~ya">>, <<"2", "f", "a">>, <<"s", "m", "s">>, <<"a", "u", "t", "h", "y">>, <<"g", "o", "o", "g", "l", "e", " ", "a", "u", "t", "h", "e", "n", "t", "i", "c", "a", "t", "o", "r">>>>,
      <<<<"~p", "~r", "~o", "~b", "~n", "~y", "~j", " ", "~p", "~e", "~r", "~i", "~o", "~d">>, <<"1", "4", " ", "~d", "~n", "~e", "~j">>, <<"~t", "~e", "~s", "~t", "~o", "~v", "~y", "~j">>, <<"t", "r", "i", "a", "l">>>>,
      <<<<"t", "i", "c", "k", "e", "t", "i", "n", "g", " ", "s", "y", "s", "t", "e", "m">>, <<"~t", "~i", "~k", "~e", "~t">>, <<"~o", "~b", "~r", "~a", "~sch", "~e", "~n", "~i">>, <<"~u", "~p", "~r", "~a", "~v", "~l", "~e", "~n", "~i", "~e">>>>,
      <<<<"~a", "~n", "~a", "~l", "~i", "~t", "~i", "~k", "~a">>, <<"~o", "~t", "~ch", "~yo", "~t", "~y">>, <<"s", "l", "a">>>>,
      <<<<"s", "u", "p", "p", "o", "r", "t", "@">>, <<"e", "m", "a", "i", "l", ":">>, <<"t", "e", "l", "e", "g", "r", "a", "m">>, <<"l", "i", "v", "e", " ", "c", "h", "a", "t">>, <<"~ch", "~a", "~s", "~y", " ", "~r", "~a", "~b", "~o", "~t", "~y">>>>>>

\* roadmap_markers of the specific-feature branch
SpecificRoadmapMarkers ==
    <<<<"q", "1">>, <<"q", "2">>, <<"q", "3">>, <<"q", "4">>,
       <<"~p", "~l", "~a", "~n", "~i", "~r", "~u", "~e", "~t", "~s", "~ya">>,
       <<"~b", "~u", "~d", "~u", "~sch", "~e", "~m">>, <<"r", "o", "a", "d", "m", "a", "p">>>>

\* existing_markers
ExistingMarkers ==
    <<<<"~p", "~o", "~d", "~d", "~e", "~r", "~zh", "~i", "~v", "~a", "~e", "~t", "~s", "~ya">>,
       <<"~d", "~o", "~s", "~t", "~u", "~p", "~n", "~o">>,
       <<"~v", "~k", "~l", "~yu", "~ch", "~a", "~e", "~t">>,
       <<"~f", "~u", "~n", "~k", "~c", "~i", "~i", " ", "h", "e", "l", "p", "z", "e", "n">>,
       <<"~o", "~s", "~n", "~o", "~v", "~n", "~y", "~e", " ", "~f", "~u", "~n", "~k", "~c", "~i", "~i">>,
       <<"~v", "~o", "~z", "~m", "~o", "~zh", "~n", "~o", "~s", "~t", "~i">>,
       <<"~m", "~e", "~t", "~o", "~d", "~y", " ", "~v", "~h", "~o", "~d", "~a">>,
       <<"~m", "~o", "~zh", "~n", "~o">>, <<"~u", "~m", "~e", "~e", "~t">>,
       <<"~t", "~a", "~r", "~i", "~f", "~y">>,
       <<"~s", "~t", "~o", "~i", "~m", "~o", "~s", "~t", "~soft">>,
       <<"~e", "~s", "~t", "~soft">>, <<"~i", "~m", "~e", "~e", "~t", "~s", "~ya">>>>

\* roadmap_markers of the general branch
GeneralRoadmapMarkers ==
    <<<<"q", "1">>, <<"q", "2">>, <<"q", "3">>, <<"q", "4">>,
       <<"~p", "~l", "~a", "~n", "~i", "~r", "~u", "~e", "~t", "~s", "~ya">>,
       <<"~b", "~u", "~d", "~u", "~sch", "~e", "~m">>, <<"r", "o", "a", "d", "m", "a", "p">>,
       <<"~d", "~o", "~r", "~o", "~zh", "~n", "~a", "~ya", " ", "~k", "~a", "~r", "~t", "~a">>>>

\* the markers of is_roadmap_chunk in semantic_reranker_with_rules
RoadmapChunkMarkers ==
    <<<<"q", "1">>, <<"q", "2">>, <<"q", "3">>, <<"q", "4">>, <<"~p", "~l", "~a", "~n", "~y">>,
       <<"r", "o", "a", "d", "m", "a", "p">>, <<"~b", "~u", "~d", "~u", "~sch">>,
       <<"~p", "~l", "~a", "~n", "~i", "~r", "~u", "~e", "~t", "~s", "~ya">>>>

\* contact_markers of get_category_boost
ContactBoostMarkers ==
    <<<<"s", "u", "p", "p", "o", "r", "t", "@">>, <<"e", "m", "a", "i", "l", ":">>,
       <<"t", "e", "l", "e", "g", "r", "a", "m">>,
       <<"l", "i", "v", "e", " ", "c", "h", "a", "t">>,
       <<"~ch", "~a", "~s", "~y", " ", "~r", "~a", "~b", "~o", "~t", "~y">>,
       <<"~p", "~n", "~dash", "~p", "~t">>, <<"s", "l", "a", ":">>,
       <<"~o", "~t", "~v", "~e", "~t", " ", "~v", " ", "~t", "~e", "~ch", "~e", "~n", "~i", "~e">>,
       <<"~p", "~o", "~d", "~d", "~e", "~r", "~zh", "~k", "~a">>,
       <<"~s", "~v", "~ya", "~z", "~a", "~t", "~soft", "~s", "~ya">>>>

\* security_markers of get_category_boost
SecurityBoostMarkers ==
    <<<<"a", "w", "s">>, <<"~sh", "~i", "~f", "~r", "~o", "~v", "~a", "~n", "~i", "~e">>,
       <<"s", "o", "c", " ", "2">>,
       <<"~d", "~a", "~n", "~n", "~y", "~e", " ", "~h", "~r", "~a", "~n", "~ya", "~t", "~s", "~ya">>,
       <<"a", "e", "s", "-">>, <<"t", "l", "s">>,
       <<"~p", "~o", "~l", "~i", "~t", "~i", "~k", "~i", " ", "~b", "~e", "~z", "~o", "~p", "~a", "~s", "~n", "~o", "~s", "~t", "~i">>,
       <<"~f", "~r", "~a", "~n", "~k", "~f", "~u", "~r", "~t">>,
       <<"~b", "~eh", "~k", "~a", "~p">>>>

\* pricing_markers of get_category_boost
PricingBoostMarkers ==
    <<<<"$">>, <<"~t", "~a", "~r", "~i", "~f">>,
       <<"~b", "~e", "~s", "~p", "~l", "~a", "~t", "~n">>,
       <<"~p", "~e", "~r", "~i", "~o", "~d">>, <<"p", "r", "o", ":">>,
       <<"b", "u", "s", "i", "n", "e", "s", "s", ":">>, <<"f", "r", "e", "e", ":">>,
       <<"/", "~m", "~e", "~s">>, <<"~a", "~g", "~e", "~n", "~t">>,
       <<"~i", "~n", "~t", "~e", "~g", "~r", "~a", "~c">>,
       <<"~p", "~r", "~o", "~b", "~n", "~y", "~j">>>>

\* contact_markers of has_contact_info
ContactInfoMarkers ==
    <<<<"s", "u", "p", "p", "o", "r", "t", "@">>, <<"e", "m", "a", "i", "l", ":">>, <<"@">>,
       <<"~t", "~e", "~l", "~e", "~f", "~o", "~n">>,
       <<"~ch", "~a", "~s", "~y", " ", "~r", "~a", "~b", "~o", "~t", "~y">>,
       <<"t", "e", "l", "e", "g", "r", "a", "m">>,
       <<"l", "i", "v", "e", " ", "c", "h", "a", "t">>, <<"~p", "~n", "~dash", "~p", "~t">>,
       <<"s", "l", "a", ":">>,
       <<"~o", "~t", "~v", "~e", "~t", " ", "~v", " ", "~t", "~e", "~ch", "~e", "~n", "~i", "~e">>,
       <<"~s", "~v", "~ya", "~z", "~a", "~t", "~soft", "~s", "~ya">>,
       <<"~o", "~b", "~r", "~a", "~t", "~i", "~t", "~soft", "~s", "~ya">>,
       <<"~p", "~o", "~d", "~d", "~e", "~r", "~zh", "~k", "~a">>,
       <<"~t", "~e", "~h", "~p", "~o", "~d", "~d", "~e", "~r", "~zh", "~k", "~a">>,
       <<"~s", "~l", "~u", "~zh", "~b", "~a">>,
       <<"~g", "~r", "~a", "~f", "~i", "~k", " ", "~r", "~a", "~b", "~o", "~t", "~y">>,
       <<"~v", "~r", "~e", "~m", "~ya", " ", "~r", "~a", "~b", "~o", "~t", "~y">>>>

\* security_markers of has_security_info
SecurityInfoMarkers ==
    <<<<"a", "w", "s">>, <<"~sh", "~i", "~f", "~r", "~o", "~v", "~a", "~n", "~i", "~e">>,
       <<"a", "e", "s", "-">>, <<"t", "l", "s">>, <<"s", "o", "c", " ", "2">>,
       <<"~b", "~e", "~z", "~o", "~p", "~a", "~s", "~n", "~o", "~s", "~t", "~soft">>,
       <<"~p", "~o", "~l", "~i", "~t", "~i", "~k">>>>

\* pricing_markers of has_pricing_info
PricingInfoMarkers ==
    <<<<"$">>, <<"~t", "~a", "~r", "~i", "~f">>,
       <<"~s", "~t", "~o", "~i", "~m", "~o", "~s", "~t", "~soft">>,
       <<"~b", "~e", "~s", "~p", "~l", "~a", "~t", "~n">>, <<"~p", "~r", "~o">>,
       <<"b", "u", "s", "i", "n", "e", "s", "s">>, <<"~p", "~e", "~r", "~i", "~o", "~d">>>>

Marker2fa == <<"2", "f", "a">>

MarkerTwoFactorStem == <<"~d", "~v", "~u", "~h", "~f", "~a", "~k", "~t", "~o", "~r", "~n">>

MarkerTwoFactor == <<"~d", "~v", "~u", "~h", "~f", "~a", "~k", "~t", "~o", "~r", "~n", "~a">>

MarkerAuthy == <<"a", "u", "t", "h", "y">>

MarkerAi == <<"a", "i">>

MarkerAssistant == <<"~a", "~s", "~s", "~i", "~s", "~t", "~e", "~n", "~t">>

MarkerAiAssistant == <<"a", "i", "-", "~a", "~s", "~s", "~i", "~s", "~t", "~e", "~n", "~t">>

MarkerQ4 == <<"q", "4">>

MarkerBusinessHours == <<"~ch", "~a", "~s", "~y", " ", "~r", "~a", "~b", "~o", "~t", "~y">>

MarkerWorkingTime == <<"~v", "~r", "~e", "~m", "~ya", " ", "~r", "~a", "~b", "~o", "~t", "~y">>

MarkerMonFri == <<"~p", "~n", "~dash", "~p", "~t">>

\* a chunk text, in Latin letters "Slack dostupno"
TextSlackLive ==
    <<"S", "l", "a", "c", "k", " ", "~d", "~o", "~s", "~t", "~u", "~p", "~n", "~o">>

\* a chunk text, in Latin letters "Slack roadmap Q3"
TextSlackRoadmap ==
    <<"S", "l", "a", "c", "k", " ", "r", "o", "a", "d", "m", "a", "p", " ", "Q", "3">>

\* a chunk text, in Latin letters "plany: Slack"
TextSlackPlans ==
    <<"~p", "~l", "~a", "~n", "~y", ":", " ", "S", "l", "a", "c", "k">>

\* a chunk text, in Latin letters "WhatsApp podderzhivaetsya"
TextWhatsAppLive ==
    <<"W", "h", "a", "t", "s", "A", "p", "p", " ", "~p", "~o", "~d", "~d", "~e", "~r", "~zh", "~i", "~v", "~a", "~e", "~t", "~s", "~ya">>

\* a chunk text, in Latin letters "WhatsApp planiruetsya v Q3"
TextWhatsAppRoadmap ==
    <<"W", "h", "a", "t", "s", "A", "p", "p", " ", "~p", "~l", "~a", "~n", "~i", "~r", "~u", "~e", "~t", "~s", "~ya", " ", "~v", " ", "Q", "3">>

\* a chunk text, in Latin letters "AI est'"
TextAiLive ==
    <<"A", "I", " ", "~e", "~s", "~t", "~soft">>

\* a chunk text, in Latin letters "AI-assistent Q4"
TextAiRoadmap ==
    <<"A", "I", "-", "~a", "~s", "~s", "~i", "~s", "~t", "~e", "~n", "~t", " ", "Q", "4">>

\* the questions, in Latin letters "est' li Slack?", "est' li WhatsApp?" and
\* "est' li AI assistent?"
QuestionSlack ==
    <<"~e", "~s", "~t", "~soft", " ", "~l", "~i", " ", "S", "l", "a", "c", "k", "?">>

QuestionWhatsApp ==
    <<"~e", "~s", "~t", "~soft", " ", "~l", "~i", " ", "W", "h", "a", "t", "s", "A", "p", "p", "?">>

QuestionAi ==
    <<"~e", "~s", "~t", "~soft", " ", "~l", "~i", " ", "A", "I", " ", "~a", "~s", "~s", "~i", "~s", "~t", "~e", "~n", "~t", "?">>

\* "marker in text"
Contains(marker, text) ==
    \E i \in 1..(Len(text) - Len(marker) + 1) : SubSeq(text, i, i + Len(marker) - 1) = marker

\* any(marker in text for marker in markers)
AnyIn(markers, text) == \E k \in 1..Len(markers) : Contains(markers[k], text)

\* detect_existing_feature(text, question)
detect_existing_feature(text, question) ==
    LET text_lower == lower(text)
        question_lower == lower(question)
    IN  \/ \E f \in 1..Len(SpecificFeatures) :
              /\ AnyIn(SpecificFeatures[f], question_lower)
              /\ AnyIn(SpecificFeatures[f], text_lower)
              /\ ~AnyIn(SpecificRoadmapMarkers, text_lower)
        \/ /\ AnyIn(ExistingMarkers, text_lower)
           /\ ~AnyIn(GeneralRoadmapMarkers, text_lower)

\* the dict boosts of get_category_boost, with boosts.get(question_type, 1.0)
CategoryBoosts(question_type) ==
    CASE question_type = "contact" -> Rat(35, 10)
      [] question_type = "security" -> Rat(28, 10)
      [] question_type = "pricing" -> Rat(25, 10)
      [] question_type = "feature_inquiry" -> Rat(22, 10)
      [] question_type = "instruction" -> Rat(20, 10)
      [] question_type = "existence" -> Rat(15, 10)
      [] OTHER -> RInt(1)

\* get_category_boost(text, question, question_type)
get_category_boost(text, question, question_type) ==
    LET text_lower == lower(text)
        question_lower == lower(question)
    IN  IF question_type = "contact" /\ AnyIn(ContactBoostMarkers, text_lower)
            THEN CategoryBoosts("contact")
        ELSE IF question_type = "security" /\ AnyIn(SecurityBoostMarkers, text_lower)
            THEN CategoryBoosts("security")
        ELSE IF question_type = "pricing" /\ AnyIn(PricingBoostMarkers, text_lower)
            THEN CategoryBoosts("pricing")
        ELSE IF /\ Contains(Marker2fa, question_lower)
                   \/ Contains(MarkerTwoFactorStem, question_lower)
                /\ \/ Contains(MarkerTwoFactor, text_lower)
                   \/ Contains(Marker2fa, text_lower)
                   \/ Contains(MarkerAuthy, text_lower)
            THEN Rat(35, 10)
        ELSE IF /\ Contains(MarkerAi, question_lower)
                   \/ Contains(MarkerAssistant, question_lower)
                /\ \/ Contains(MarkerAiAssistant, text_lower)
                   \/ Contains(MarkerQ4, text_lower)
            THEN RInt(3)
        ELSE IF /\ Contains(MarkerBusinessHours, question_lower)
                   \/ Contains(MarkerWorkingTime, question_lower)
                /\ \/ Contains(MarkerMonFri, text_lower)
                   \/ Contains(MarkerBusinessHours, text_lower)
            THEN Rat(35, 10)
        ELSE CategoryBoosts(question_type)

has_contact_info(text) == AnyIn(ContactInfoMarkers, lower(text))

has_security_info(text) == AnyIn(SecurityInfoMarkers, text)

has_pricing_info(text) == AnyIn(PricingInfoMarkers, text)

\* is_roadmap_chunk of semantic_reranker_with_rules
is_roadmap_chunk(chunk_text) == AnyIn(RoadmapChunkMarkers, chunk_text)

\* Rule 1 of semantic_reranker_with_rules: the factor for an existence or
\* feature_inquiry question ("2.5 if is_existing_feature else 0.3" runs only
\* where is_existing_feature holds)
existence_boost(chunk_text, question_lower, question_type) ==
    LET is_existing_feature == detect_existing_feature(chunk_text, question_lower)
    IN  IF question_type \notin {"existence", "feature_inquiry"} THEN RInt(1)
        ELSE IF is_existing_feature /\ is_roadmap_chunk(chunk_text)
            THEN (IF is_existing_feature THEN Rat(25, 10) ELSE Rat(3, 10))
        ELSE IF is_existing_feature THEN RInt(2)
        ELSE IF is_roadmap_chunk(chunk_text) THEN Rat(15, 10)
        ELSE RInt(1)

\* Rules 1 to 5 of semantic_reranker_with_rules: the number base_score has been
\* multiplied by when the loop body ends
rule_boost(text, question, question_type) ==
    LET question_lower == lower(question)
        chunk_text == lower(text)
        rule1 == existence_boost(chunk_text, question_lower, question_type)
        rule2 == get_category_boost(chunk_text, question_lower, question_type)
        rule3 == IF question_type = "contact" /\ has_contact_info(chunk_text)
                 THEN RInt(3) ELSE RInt(1)
        rule4 == IF question_type = "security" /\ has_security_info(chunk_text)
                 THEN Rat(25, 10) ELSE RInt(1)
        rule5 == IF question_type = "pricing" /\ has_pricing_info(chunk_text)
                 THEN Rat(25, 10) ELSE RInt(1)
    IN  RMul(RMul(RMul(RMul(rule1, rule2), rule3), rule4), rule5)

\* ------------------------------------------------ re.search(pattern, s)
\* a parsed regular expression is a tree of the nodes below
Lit(chars) == <<"lit", chars>>
Concat(nodes) == <<"seq", nodes>>
Branch(nodes) == <<"alt", nodes>>
MaxRepeat(lo, hi, node) == <<"rep", lo, hi, node>>
In(chars, categories) == <<"in", chars, categories>>
AtBeginning == <<"at", "begin">>
AtEnd == <<"at", "end">>
\* the upper limit of * and +
MAXREPEAT == -1

\* \w: letters, digits and the underscore
WordChars ==
    {"a", "b", "c", "d", "e", "f", "g", "h", "i", "j", "k", "l", "m", "n", "o", "p",
     "q", "r", "s", "t", "u", "v", "w", "x", "y", "z", "A", "B", "C", "D", "E", "F",
     "G", "H", "I", "J", "K", "L", "M", "N", "O", "P", "Q", "R", "S", "T", "U", "V",
     "W", "X", "Y", "Z", "0", "1", "2", "3", "4", "5", "6", "7", "8", "9", "_", "~a",
     "~b", "~v", "~g", "~d", "~e", "~yo", "~zh", "~z", "~i", "~j", "~k", "~l", "~m",
     "~n", "~o", "~p", "~r", "~s", "~t", "~u", "~f", "~h", "~c", "~ch", "~sh", "~sch",
     "~hard", "~y", "~soft", "~eh", "~yu", "~ya"}

\* \s
SpaceChars == {" ", "\n", "\t"}

\* the positions a match of node that starts at position i of s can end
\* before (position Len(s) + 1 is the end of s)
RECURSIVE MatchEnds(_, _, _)
RECURSIVE ConcatEnds(_, _, _, _)
RECURSIVE RepeatEnds(_, _, _, _)
MatchEnds(node, s, i) ==
    CASE node[1] = "lit" ->
            IF i + Len(node[2]) - 1 <= Len(s) /\ SubSeq(s, i, i + Len(node[2]) - 1) = node[2]
            THEN {i + Len(node[2])} ELSE {}
      [] node[1] = "seq" -> ConcatEnds(node[2], 1, s, {i})
      [] node[1] = "alt" -> UNION {MatchEnds(node[2][k], s, i) : k \in 1..Len(node[2])}
      [] node[1] = "rep" -> RepeatEnds(node, s, {i}, 0)
      [] node[1] = "in" ->
            IF /\ i <= Len(s)
               /\ \/ s[i] \in node[2]
                  \/ "space" \in node[3] /\ s[i] \in SpaceChars
                  \/ "word" \in node[3] /\ s[i] \in WordChars
            THEN {i + 1} ELSE {}
      [] node[1] = "at" ->
            IF node[2] = "begin"
            THEN (IF i = 1 THEN {i} ELSE {})
            ELSE (IF i = Len(s) + 1 \/ (i = Len(s) /\ s[i] = "\n") THEN {i} ELSE {})

\* the nodes from the k-th on, each starting where the one before ended
ConcatEnds(nodes, k, s, starts) ==
    IF k > Len(nodes) \/ starts = {} THEN starts
    ELSE ConcatEnds(nodes, k + 1, s, UNION {MatchEnds(nodes[k], s, p) : p \in starts})

\* starts: where the node can stand after count repetitions
RepeatEnds(node, s, starts, count) ==
    LET more == UNION {MatchEnds(node[4], s, p) : p \in starts}
    IN  (IF count >= node[2] THEN starts ELSE {})
        \cup (IF /\ more # {}
                 /\ node[3] = MAXREPEAT \/ count < node[3]
                 /\ count <= Len(s)
              THEN RepeatEnds(node, s, more, count + 1) ELSE {})

\* re.search(pattern, s) finds a match
re_search(pattern, s) == \E i \in 1..(Len(s) + 1) : MatchEnds(pattern, s, i) # {}

\* any(re.search(pattern, question_lower) for pattern in patterns)
AnyPattern(patterns, s) == \E k \in 1..Len(patterns) : re_search(patterns[k], s)

\* ----------------------------------------- enhanced_question_classifier
\* existence_patterns (the regular expressions, parsed)
existence_patterns == <<
    Concat(<<Lit(<<"~e", "~s", "~t", "~soft">>), MaxRepeat(1, MAXREPEAT, In({},
        {"space"})), Lit(<<"~l", "~i">>)>>),
    Concat(<<Lit(<<"~p", "~o", "~d", "~d", "~e", "~r", "~zh", "~i", "~v", "~a", "~e",
        "~t">>), MaxRepeat(1, MAXREPEAT, In({}, {"space"})), Lit(<<"~l", "~i">>)>>),
    Concat(<<Lit(<<"~d", "~o", "~b", "~a", "~v", "~ya", "~t">>), MaxRepeat(1, MAXREPEAT,
        In({}, {"space"})), Lit(<<"~l", "~i">>)>>),
    Concat(<<Lit(<<"~b", "~u", "~d", "~e", "~t">>), MaxRepeat(1, MAXREPEAT, In({},
        {"space"})), Lit(<<"~l", "~i">>)>>),
    Concat(<<Lit(<<"~p", "~l", "~a", "~n", "~i", "~r", "~u", "~e", "~t", "~s", "~ya">>),
        MaxRepeat(1, MAXREPEAT, In({}, {"space"})), Lit(<<"~l", "~i">>)>>),
    Concat(<<Lit(<<"~m", "~o", "~zh", "~n", "~o">>), MaxRepeat(1, MAXREPEAT, In({},
        {"space"})), Lit(<<"~l", "~i">>)>>),
    Concat(<<Lit(<<"~i", "~m", "~e", "~e", "~t", "~s", "~ya">>), MaxRepeat(1, MAXREPEAT,
        In({}, {"space"})), Lit(<<"~l", "~i">>)>>),
    Concat(<<Lit(<<"~p", "~o", "~ya", "~v", "~i", "~t", "~s", "~ya">>), MaxRepeat(1,
        MAXREPEAT, In({}, {"space"})), Lit(<<"~l", "~i">>)>>),
    Concat(<<Lit(<<"~d", "~o", "~s", "~t", "~u", "~p", "~n">>), MaxRepeat(0, MAXREPEAT,
        In({}, {"word"})), MaxRepeat(0, MAXREPEAT, In({}, {"space"})), MaxRepeat(0, 1,
        Lit(<<"~l", "~i">>))>>),
    Concat(<<Lit(<<"~v", "~k", "~l", "~yu", "~ch", "~a", "~e", "~t">>), MaxRepeat(1,
        MAXREPEAT, In({}, {"space"})), Lit(<<"~l", "~i">>)>>),
    Concat(<<Lit(<<"~u", "~m", "~e", "~e", "~t">>), MaxRepeat(1, MAXREPEAT, In({},
        {"space"})), Lit(<<"~l", "~i">>)>>),
    Concat(<<Lit(<<"~v", "~o", "~z", "~m", "~o", "~zh", "~n">>), MaxRepeat(0, MAXREPEAT,
        In({}, {"word"})), MaxRepeat(0, MAXREPEAT, In({}, {"space"})), MaxRepeat(0, 1,
        Lit(<<"~l", "~i">>))>>),
    Concat(<<Lit(<<"~p", "~r", "~e", "~d", "~u", "~s", "~m", "~o", "~t", "~r", "~e",
        "~n">>), MaxRepeat(0, MAXREPEAT, In({}, {"word"})), MaxRepeat(0, MAXREPEAT, In({},
        {"space"})), MaxRepeat(0, 1, Lit(<<"~l", "~i">>))>>),
    Concat(<<Lit(<<"~r", "~e", "~a", "~l", "~i", "~z", "~o", "~v", "~a", "~n">>),
        MaxRepeat(0, MAXREPEAT, In({}, {"word"})), MaxRepeat(0, MAXREPEAT, In({},
        {"space"})), MaxRepeat(0, 1, Lit(<<"~l", "~i">>))>>),
    Concat(<<Lit(<<"~r", "~a", "~b", "~o", "~t", "~a", "~e", "~t">>), MaxRepeat(1,
        MAXREPEAT, In({}, {"space"})), Lit(<<"~l", "~i">>)>>),
    Concat(<<Lit(<<"~f", "~u", "~n", "~k", "~c", "~i", "~o", "~n", "~i", "~r", "~u", "~e",
        "~t">>), MaxRepeat(1, MAXREPEAT, In({}, {"space"})), Lit(<<"~l", "~i">>)>>),
    Concat(<<Lit(<<"~p", "~o", "~d", "~d", "~e", "~r", "~zh", "~i", "~v", "~a">>),
        MaxRepeat(1, MAXREPEAT, In({}, {"word"})), MaxRepeat(0, MAXREPEAT, In({},
        {"space"})), MaxRepeat(0, 1, Lit(<<"~l", "~i">>))>>),
    Concat(<<Lit(<<"~p", "~r", "~i", "~s", "~u", "~t", "~s", "~t", "~v", "~u", "~e",
        "~t">>), MaxRepeat(1, MAXREPEAT, In({}, {"space"})), Lit(<<"~l", "~i">>)>>),
    Concat(<<AtBeginning, Branch(<<Lit(<<"~e", "~s", "~t", "~soft">>), Lit(<<"~i", "~m",
        "~e", "~e", "~t", "~s", "~ya">>), Concat(<<Lit(<<"~d", "~o", "~s", "~t", "~u",
        "~p", "~n">>), MaxRepeat(0, 1, Lit(<<"~a">>))>>)>>), MaxRepeat(1, MAXREPEAT,
        In({}, {"space"}))>>),
    Concat(<<Lit(<<"~v", "~s", "~t", "~r", "~o", "~e", "~n">>), MaxRepeat(0, MAXREPEAT,
        In({}, {"word"})), MaxRepeat(0, MAXREPEAT, In({}, {"space"})), MaxRepeat(0, 1,
        Lit(<<"~l", "~i">>))>>),
    Concat(<<Lit(<<"~i", "~n", "~t", "~e", "~g", "~r", "~i", "~r", "~o", "~v", "~a",
        "~n">>), MaxRepeat(0, MAXREPEAT, In({}, {"word"})), MaxRepeat(0, MAXREPEAT, In({},
        {"space"})), MaxRepeat(0, 1, Lit(<<"~l", "~i">>))>>)
>>

\* instruction_patterns (the regular expressions, parsed)
instruction_patterns == <<
    Concat(<<Lit(<<"~k", "~a", "~k">>), MaxRepeat(1, MAXREPEAT, In({}, {"space"})),
        MaxRepeat(1, MAXREPEAT, In({}, {"word"}))>>),
    Concat(<<Lit(<<"~g", "~d", "~e">>), MaxRepeat(1, MAXREPEAT, In({}, {"space"})),
        MaxRepeat(1, MAXREPEAT, In({}, {"word"}))>>),
    Concat(<<Lit(<<"~k", "~o", "~g", "~d", "~a">>), MaxRepeat(1, MAXREPEAT, In({},
        {"space"})), MaxRepeat(1, MAXREPEAT, In({}, {"word"}))>>),
    Concat(<<Lit(<<"~k", "~a", "~k", "~i", "~m">>), MaxRepeat(1, MAXREPEAT, In({},
        {"space"})), Lit(<<"~o", "~b", "~r", "~a", "~z", "~o", "~m">>)>>),
    Concat(<<Lit(<<"~ch", "~t", "~o">>), MaxRepeat(1, MAXREPEAT, In({}, {"space"})),
        Lit(<<"~d", "~e", "~l", "~a", "~t", "~soft">>)>>),
    Concat(<<Lit(<<"~k", "~a", "~k">>), MaxRepeat(1, MAXREPEAT, In({}, {"space"})),
        Lit(<<"~s", "~v", "~ya", "~z", "~a", "~t", "~soft", "~s", "~ya">>)>>),
    Concat(<<Lit(<<"~k", "~a", "~k">>), MaxRepeat(1, MAXREPEAT, In({}, {"space"})),
        MaxRepeat(1, MAXREPEAT, In({}, {"word"})), MaxRepeat(1, MAXREPEAT, In({},
        {"space"})), MaxRepeat(1, MAXREPEAT, In({}, {"word"}))>>),
    Concat(<<Lit(<<"~g", "~d", "~e">>), MaxRepeat(1, MAXREPEAT, In({}, {"space"})),
        Lit(<<"~n", "~a", "~j", "~t", "~i">>)>>),
    Concat(<<Lit(<<"~g", "~d", "~e">>), MaxRepeat(1, MAXREPEAT, In({}, {"space"})),
        MaxRepeat(1, MAXREPEAT, In({}, {"word"})), MaxRepeat(1, MAXREPEAT, In({},
        {"space"})), MaxRepeat(1, MAXREPEAT, In({}, {"word"}))>>)
>>

\* feature_patterns (the regular expressions, parsed)
feature_patterns == <<
    Concat(<<AtBeginning, Branch(<<Lit(<<"a", "i">>), Lit(<<"~a", "~s", "~s", "~i", "~s",
        "~t", "~e", "~n", "~t">>), Lit(<<"v", "o", "i", "p">>), Lit(<<"2", "f", "a">>),
        Lit(<<"~d", "~v", "~u", "~h", "~f", "~a", "~k", "~t", "~o", "~r", "~n">>)>>),
        MaxRepeat(0, MAXREPEAT, In({}, {"space"})), AtEnd>>),
    Concat(<<AtBeginning, Branch(<<Concat(<<Lit(<<"a", "i">>), MaxRepeat(0, MAXREPEAT,
        In({"-"}, {"space"})), Lit(<<"~a", "~s", "~s", "~i", "~s", "~t", "~e", "~n",
        "~t">>)>>), Concat(<<Lit(<<"~i", "~s", "~k", "~u", "~s", "~s", "~t", "~v", "~e",
        "~n", "~n">>), MaxRepeat(0, MAXREPEAT, In({}, {"word"})), MaxRepeat(0, MAXREPEAT,
        In({}, {"space"})), Lit(<<"~i", "~n", "~t", "~e", "~l", "~l", "~e", "~k",
        "~t">>)>>)>>), MaxRepeat(0, MAXREPEAT, In({}, {"space"})), AtEnd>>),
    Concat(<<AtBeginning, Branch(<<Lit(<<"w", "h", "a", "t", "s", "a", "p", "p">>),
        Lit(<<"t", "e", "l", "e", "g", "r", "a", "m">>), Lit(<<"s", "l", "a", "c",
        "k">>)>>), MaxRepeat(0, MAXREPEAT, In({}, {"space"})), MaxRepeat(0, 1,
        Branch(<<Lit(<<"~i", "~n", "~t", "~e", "~g", "~r", "~a", "~c", "~i", "~ya">>),
        Lit(<<"a", "p", "i">>)>>)), MaxRepeat(0, MAXREPEAT, In({}, {"space"})), AtEnd>>),
    Concat(<<Lit(<<"~i", "~n", "~t", "~e", "~g", "~r", "~a", "~c", "~i", "~ya">>),
        MaxRepeat(1, MAXREPEAT, In({}, {"space"})), Lit(<<"~s">>), MaxRepeat(1, MAXREPEAT,
        In({}, {"space"})), MaxRepeat(1, MAXREPEAT, In({}, {"word"}))>>),
    Concat(<<AtBeginning, Branch(<<Concat(<<Lit(<<"l", "i", "v", "e">>), MaxRepeat(1,
        MAXREPEAT, In({}, {"space"})), Lit(<<"c", "h", "a", "t">>)>>),
        Concat(<<Lit(<<"~l", "~a", "~j", "~v">>), MaxRepeat(1, MAXREPEAT, In({},
        {"space"})), Lit(<<"~ch", "~a", "~t">>)>>), Lit(<<"~ch", "~a", "~t">>)>>),
        MaxRepeat(0, MAXREPEAT, In({}, {"space"})), AtEnd>>),
    Concat(<<AtBeginning, Branch(<<Lit(<<"t", "i", "c", "k", "e", "t", "i", "n", "g">>),
        Lit(<<"~t", "~i", "~k", "~e", "~t", "~i", "~n", "~g">>), Concat(<<Lit(<<"~s",
        "~i", "~s", "~t", "~e", "~m", "~a">>), MaxRepeat(1, MAXREPEAT, In({}, {"space"})),
        Lit(<<"~t", "~i", "~k", "~e", "~t", "~o", "~v">>)>>)>>), MaxRepeat(0, MAXREPEAT,
        In({}, {"space"})), AtEnd>>),
    Concat(<<AtBeginning, Branch(<<Concat(<<Lit(<<"~b", "~a", "~z", "~a">>), MaxRepeat(1,
        MAXREPEAT, In({}, {"space"})), Lit(<<"~z", "~n", "~a", "~n", "~i", "~j">>)>>),
        Concat(<<Lit(<<"k", "n", "o", "w", "l", "e", "d", "g", "e">>), MaxRepeat(1,
        MAXREPEAT, In({}, {"space"})), Lit(<<"b", "a", "s", "e">>)>>)>>), MaxRepeat(0,
        MAXREPEAT, In({}, {"space"})), AtEnd>>),
    Concat(<<AtBeginning, Branch(<<Lit(<<"~a", "~n", "~a", "~l", "~i", "~t", "~i", "~k",
        "~a">>), Lit(<<"a", "n", "a", "l", "y", "t", "i", "c", "s">>), Lit(<<"~o", "~t",
        "~ch", "~e", "~t", "~y">>)>>), MaxRepeat(0, MAXREPEAT, In({}, {"space"})),
        AtEnd>>),
    Concat(<<Lit(<<"~p", "~o", "~d", "~d", "~e", "~r", "~zh", "~k", "~a">>), MaxRepeat(1,
        MAXREPEAT, In({}, {"space"})), Branch(<<Lit(<<"w", "h", "a", "t", "s", "a", "p",
        "p">>), Lit(<<"t", "e", "l", "e", "g", "r", "a", "m">>), Lit(<<"s", "l", "a", "c",
        "k">>), Lit(<<"f", "a", "c", "e", "b", "o", "o", "k">>)>>)>>),
    Concat(<<Lit(<<"~g", "~o", "~l", "~o", "~s", "~o", "~v", "~a", "~ya">>), MaxRepeat(1,
        MAXREPEAT, In({}, {"space"})), Lit(<<"~p", "~o", "~d", "~d", "~e", "~r", "~zh",
        "~k", "~a">>)>>),
    Concat(<<Lit(<<"a", "p", "i">>), MaxRepeat(1, MAXREPEAT, In({}, {"space"})),
        Lit(<<"~i", "~n", "~t", "~e", "~g", "~r", "~a", "~c", "~i", "~ya">>)>>),
    Concat(<<AtBeginning, Branch(<<Concat(<<Lit(<<"~b", "~a", "~z", "~a">>), MaxRepeat(1,
        MAXREPEAT, In({}, {"space"})), Lit(<<"~z", "~n", "~a", "~n", "~i", "~j">>)>>),
        Concat(<<Lit(<<"l", "i", "v", "e">>), MaxRepeat(1, MAXREPEAT, In({}, {"space"})),
        Lit(<<"c", "h", "a", "t">>)>>), Lit(<<"t", "i", "c", "k", "e", "t", "i", "n",
        "g">>)>>), MaxRepeat(0, MAXREPEAT, In({}, {"space"})), AtEnd>>),
    Concat(<<AtBeginning, Branch(<<Lit(<<"~g", "~o", "~l", "~o", "~s", "~o", "~v">>),
        Lit(<<"~z", "~v", "~o", "~n", "~k">>)>>), MaxRepeat(0, MAXREPEAT, In({},
        {"word"})), MaxRepeat(0, MAXREPEAT, In({}, {"space"})), MaxRepeat(0, 1,
        Branch(<<Lit(<<"~p", "~o", "~d", "~d", "~e", "~r", "~zh", "~k", "~a">>),
        Lit(<<"~k", "~a", "~n", "~a", "~l">>)>>)), MaxRepeat(0, MAXREPEAT, In({},
        {"space"})), AtEnd>>)
>>

\* pricing_patterns (the regular expressions, parsed)
pricing_patterns == <<
    Concat(<<Lit(<<"~s", "~k", "~o", "~l", "~soft", "~k", "~o">>), MaxRepeat(1, MAXREPEAT,
        In({}, {"space"})), Lit(<<"~s", "~t", "~o", "~i", "~t">>)>>),
    Concat(<<Lit(<<"~c", "~e", "~n", "~a">>), MaxRepeat(1, MAXREPEAT, In({}, {"space"})),
        MaxRepeat(1, MAXREPEAT, In({}, {"word"}))>>),
    Lit(<<"~t", "~a", "~r", "~i", "~f">>),
    Lit(<<"~s", "~t", "~o", "~i", "~m", "~o", "~s", "~t", "~soft">>),
    Concat(<<Lit(<<"~p", "~r", "~o", "~b", "~n", "~y", "~j">>), MaxRepeat(1, MAXREPEAT,
        In({}, {"space"})), Lit(<<"~p", "~e", "~r", "~i", "~o", "~d">>)>>)
>>

\* contact_patterns (the regular expressions, parsed)
contact_patterns == <<
    Concat(<<Lit(<<"~k", "~a", "~k">>), MaxRepeat(1, MAXREPEAT, In({}, {"space"})),
        Lit(<<"~s", "~v", "~ya", "~z", "~a", "~t", "~soft", "~s", "~ya">>)>>),
    Concat(<<Lit(<<"~k", "~a", "~k">>), MaxRepeat(1, MAXREPEAT, In({}, {"space"})),
        Lit(<<"~o", "~b", "~r", "~a", "~t", "~i", "~t", "~soft", "~s", "~ya">>)>>),
    Concat(<<Lit(<<"~k", "~o", "~n", "~t", "~a", "~k", "~t">>), MaxRepeat(0, MAXREPEAT,
        In({}, {"word"}))>>),
    Concat(<<Lit(<<"~p", "~o", "~d", "~d", "~e", "~r", "~zh", "~k">>), MaxRepeat(0,
        MAXREPEAT, In({}, {"word"})), MaxRepeat(0, MAXREPEAT, In({}, {"space"})),
        MaxRepeat(0, 1, Concat(<<Lit(<<"~s">>), Branch(<<Lit(<<"~v", "~ya", "~z",
        "~soft">>), Lit(<<"~l", "~u", "~zh", "~b", "~a">>)>>)>>))>>),
    Concat(<<Lit(<<"e", "m", "a", "i", "l">>), MaxRepeat(1, MAXREPEAT, In({}, {"space"})),
        Lit(<<"~p", "~o", "~d", "~d", "~e", "~r", "~zh", "~k", "~i">>)>>),
    Concat(<<Lit(<<"~ch", "~a", "~s", "~y">>), MaxRepeat(1, MAXREPEAT, In({}, {"space"})),
        Lit(<<"~r", "~a", "~b", "~o", "~t", "~y">>)>>),
    Concat(<<Lit(<<"~v", "~r", "~e", "~m", "~ya">>), MaxRepeat(1, MAXREPEAT, In({},
        {"space"})), Lit(<<"~r", "~a", "~b", "~o", "~t", "~y">>)>>),
    Concat(<<Lit(<<"~g", "~r", "~a", "~f", "~i", "~k">>), MaxRepeat(1, MAXREPEAT, In({},
        {"space"})), Lit(<<"~r", "~a", "~b", "~o", "~t", "~y">>)>>),
    Concat(<<Lit(<<"~s", "~v", "~ya", "~z", "~soft">>), MaxRepeat(1, MAXREPEAT, In({},
        {"space"})), Lit(<<"~s">>), MaxRepeat(1, MAXREPEAT, In({}, {"space"})),
        Lit(<<"~p", "~o", "~d", "~d", "~e", "~r", "~zh", "~k", "~o", "~j">>)>>),
    Concat(<<Lit(<<"~s", "~l", "~u", "~zh", "~b", "~a">>), MaxRepeat(1, MAXREPEAT, In({},
        {"space"})), Lit(<<"~p", "~o", "~d", "~d", "~e", "~r", "~zh", "~k", "~i">>)>>),
    Lit(<<"~t", "~e", "~h", "~p", "~o", "~d", "~d", "~e", "~r", "~zh", "~k", "~a">>),
    Concat(<<Lit(<<"~t", "~e", "~l", "~e", "~f", "~o", "~n">>), MaxRepeat(1, MAXREPEAT,
        In({}, {"space"})), Lit(<<"~p", "~o", "~d", "~d", "~e", "~r", "~zh", "~k",
        "~i">>)>>),
    Concat(<<Lit(<<"~n", "~a", "~p", "~i", "~s", "~a", "~t", "~soft">>), MaxRepeat(1,
        MAXREPEAT, In({}, {"space"})), Lit(<<"~v">>), MaxRepeat(1, MAXREPEAT, In({},
        {"space"})), Lit(<<"~p", "~o", "~d", "~d", "~e", "~r", "~zh", "~k", "~u">>)>>),
    Concat(<<Lit(<<"~o", "~b", "~r", "~a", "~sch", "~e", "~n", "~i", "~e">>), MaxRepeat(1,
        MAXREPEAT, In({}, {"space"})), Lit(<<"~v">>), MaxRepeat(1, MAXREPEAT, In({},
        {"space"})), Lit(<<"~p", "~o", "~d", "~d", "~e", "~r", "~zh", "~k", "~u">>)>>)
>>

\* security_patterns (the regular expressions, parsed)
security_patterns == <<
    Concat(<<Lit(<<"~g", "~d", "~e">>), MaxRepeat(1, MAXREPEAT, In({}, {"space"})),
        Lit(<<"~h", "~r", "~a", "~n", "~ya", "~t", "~s", "~ya">>), MaxRepeat(1, MAXREPEAT,
        In({}, {"space"})), Lit(<<"~d", "~a", "~n", "~n", "~y", "~e">>)>>),
    Lit(<<"~b", "~e", "~z", "~o", "~p", "~a", "~s", "~n", "~o", "~s", "~t", "~soft">>),
    Lit(<<"~sh", "~i", "~f", "~r", "~o", "~v", "~a", "~n", "~i", "~e">>),
    Concat(<<Lit(<<"~p", "~o", "~l", "~i", "~t", "~i", "~k", "~a">>), MaxRepeat(1,
        MAXREPEAT, In({}, {"space"})), Lit(<<"~b", "~e", "~z", "~o", "~p", "~a", "~s",
        "~n", "~o", "~s", "~t", "~i">>)>>)
>>

\* enhanced_question_classifier(question_lower)[0]
enhanced_question_classifier(question_lower) ==
    IF AnyPattern(existence_patterns, question_lower) THEN "existence"
    ELSE IF AnyPattern(feature_patterns, question_lower) THEN "feature_inquiry"
    ELSE IF AnyPattern(instruction_patterns, question_lower) THEN "instruction"
    ELSE IF AnyPattern(contact_patterns, question_lower) THEN "contact"
    ELSE IF AnyPattern(pricing_patterns, question_lower) THEN "pricing"
    ELSE IF AnyPattern(security_patterns, question_lower) THEN "security"
    ELSE "general"

\* the chunk texts of the knowledge base the rules are run on
RuleTexts ==
    {TextSlackLive, TextSlackRoadmap, TextSlackPlans, TextWhatsAppLive,
     TextWhatsAppRoadmap, TextAiLive, TextAiRoadmap}

\* the feature a chunk text is about
TopicOf(text) ==
    CASE text \in {TextSlackLive, TextSlackRoadmap, TextSlackPlans} -> "slack"
      [] text \in {TextWhatsAppLive, TextWhatsAppRoadmap} -> "whatsapp"
      [] OTHER -> "ai"

\* the chunk_id of a chunk text
RuleChunkId(text) ==
    CASE text = TextSlackLive -> "k1"
      [] text = TextSlackRoadmap -> "k2"
      [] text = TextSlackPlans -> "k3"
      [] text = TextWhatsAppLive -> "k4"
      [] text = TextWhatsAppRoadmap -> "k5"
      [] text = TextAiLive -> "k6"
      [] OTHER -> "k7"

\* a question, in Latin letters "chasy raboty podderzhki?"
QuestionHours ==
    <<"~ch", "~a", "~s", "~y", " ", "~r", "~a", "~b", "~o", "~t", "~y", " ", "~p", "~o", "~d", "~d", "~e", "~r", "~zh", "~k", "~i", "?">>

RuleQuestions == {QuestionSlack, QuestionWhatsApp, QuestionAi, QuestionHours}

\* question_type of the /ask handler: enhanced_question_classifier(request.question.lower())
QuestionTypeOf == [q \in RuleQuestions |-> enhanced_question_classifier(lower(q))]

\* the values classify_question_type hands to the reranker
RuleQuestionTypes == {"existence", "feature_inquiry", "contact", "general"}

\* the scores simple_search gives a chunk
RuleScores == {1, 2}

\* the lists of chunks simple_search can hand over: distinct chunks, any scores
RuleChunkLists ==
    {[i \in 1..Len(texts) |-> DemoChunk(RuleChunkId(texts[i]), texts[i], "kb.md", sc[i])] :
        <<texts, sc>> \in
            UNION {{<<t, s>> : t \in {q \in [1..n -> RuleTexts] :
                                        \A i \in 1..n : \A j \in (i + 1)..n : q[i] # q[j]},
                               s \in [1..n -> RuleScores]} : n \in 0..MaxRanked}}

InitRules ==
    /\ rule_question \in RuleQuestions
    /\ rule_question_type \in RuleQuestionTypes
    /\ rule_chunks \in RuleChunkLists
    /\ rule_pc = "ready"
    /\ rule_output = <<>>
    /\ FusionIdle /\ DedupIdle /\ LlmIdle /\ AskIdle /\ SearchIdle /\ ChunkerIdle
    /\ RerankerIdle /\ IngestIdle /\ EndpointIdle /\ LateIdle

\* one call semantic_reranker_with_rules(rule_chunks, rule_question, rule_question_type)
RulesRerank ==
    /\ rule_pc = "ready"
    /\ rule_output' =
          semantic_reranker_with_rules(
              rule_chunks,
              [t \in {rule_chunks[i].text : i \in 1..Len(rule_chunks)} |->
                  rule_boost(t, rule_question, rule_question_type)])
    /\ rule_pc' = "returned"
    /\ UNCHANGED <<rule_question, rule_question_type, rule_chunks>>
    /\ UNCHANGED rulesFrame

NextRules == RulesRerank

SpecRules == InitRules /\ [][NextRules]_vars

\* ------------------------------------------ RerankerService.rerank_results
rerankerFrame == <<fusionVars, dedupVars, llmVars, askVars, searchVars, chunkVars, rulesVars,
    ingestVars, endpointVars,
    lateVars>>

MaxReranked == 3

\* the values of reranker.top_k in the configuration: the default and a smaller one
RerankerTopKs == {RerankTopK, 2}

\* the values of the argument top_k
TopKArguments == {None, Some(1), Some(2)}

\* the scores compute_score can give a pair
ModelScores == {RInt(0), RInt(1), RInt(2)}

\* "if top_k is None: top_k = self.top_k"
effective_top_k(self_top_k, top_k) == IF top_k = None THEN self_top_k ELSE top_k[2]

InitReranker ==
    /\ reranker_top_k \in RerankerTopKs
    /\ rerank_input \in SeqsUpTo(FoundPool, MaxReranked)
    /\ rerank_top_k \in TopKArguments
    /\ model_loaded \in BOOLEAN
    /\ model_scores = <<>>
    /\ reranker_pc = "ready"
    /\ rerank_output = <<>>
    /\ FusionIdle /\ DedupIdle /\ LlmIdle /\ AskIdle /\ SearchIdle /\ ChunkerIdle
    /\ RulesIdle /\ IngestIdle /\ EndpointIdle /\ LateIdle

\* "if not search_results: return []"
RerankEmpty ==
    /\ reranker_pc = "ready" /\ rerank_input = <<>>
    /\ rerank_output' = rerank_results(rerank_input, <<>>, effective_top_k(reranker_top_k, rerank_top_k))
    /\ reranker_pc' = "returned"
    /\ UNCHANGED <<reranker_top_k, rerank_input, rerank_top_k, model_loaded, model_scores>>
    /\ UNCHANGED rerankerFrame

\* _load_model() where the model is not loaded yet and FlagReranker(...) returns
RerankLoadModel ==
    /\ reranker_pc = "ready" /\ rerank_input # <<>> /\ ~model_loaded
    /\ model_loaded' = TRUE
    /\ UNCHANGED <<reranker_top_k, rerank_input, rerank_top_k, model_scores, reranker_pc,
                   rerank_output>>
    /\ UNCHANGED rerankerFrame

\* FlagReranker(...) or compute_score raises: logged and raised again
RerankRaise ==
    /\ reranker_pc = "ready" /\ rerank_input # <<>>
    /\ reranker_pc' = "raised"
    /\ UNCHANGED <<reranker_top_k, rerank_input, rerank_top_k, model_loaded, model_scores,
                   rerank_output>>
    /\ UNCHANGED rerankerFrame

\* compute_score returns, then the scores are written, the list sorted and cut
RerankScore ==
    /\ reranker_pc = "ready" /\ rerank_input # <<>> /\ model_loaded
    /\ \E scores \in [1..Len(rerank_input) -> ModelScores] :
          /\ model_scores' = scores
          /\ rerank_output' =
                rerank_results(rerank_input, scores,
                               effective_top_k(reranker_top_k, rerank_top_k))
    /\ reranker_pc' = "returned"
    /\ UNCHANGED <<reranker_top_k, rerank_input, rerank_top_k, model_loaded>>
    /\ UNCHANGED rerankerFrame

NextReranker == RerankEmpty \/ RerankLoadModel \/ RerankRaise \/ RerankScore

SpecReranker == InitReranker /\ [][NextReranker]_vars

\* ------------------------------------------------------- POST /ingest
ingestFrame == <<fusionVars, dedupVars, llmVars, askVars, searchVars, chunkVars, rulesVars,
                 rerankerVars, endpointVars,
    lateVars>>

MaxPaths == 2

\* str(e) of the AttributeError: "'TextChunker' object has no attribute
\* 'max_chunks_per_doc'"
NoAttributeMessage ==
    <<"'", "T", "e", "x", "t", "C", "h", "u", "n", "k", "e", "r", "'", " ", "o", "b", "j",
      "e", "c", "t", " ", "h", "a", "s", " ", "n", "o", " ", "a", "t", "t", "r", "i", "b",
      "u", "t", "e", " ", "'", "m", "a", "x", "_", "c", "h", "u", "n", "k", "s", "_", "p",
      "e", "r", "_", "d", "o", "c", "'">>

\* "File not found: " of read_local_file, the path follows
FileNotFoundPrefix ==
    <<"F", "i", "l", "e", " ", "n", "o", "t", " ", "f", "o", "u", "n", "d", ":", " ">>

\* str(e) of an index call that fails
IndexingFailedMessage ==
    <<"C", "o", "n", "n", "e", "c", "t", "i", "o", "n", " ", "r", "e", "f", "u", "s", "e",
      "d">>

\* str(e) of a database call that fails
DatabaseFailedMessage ==
    <<"c", "o", "n", "n", "e", "c", "t", "i", "o", "n", " ", "t", "o", " ", "s", "e", "r",
      "v", "e", "r", " ", "f", "a", "i", "l", "e", "d">>

\* str(KeyError("error_code"))
KeyErrorMessage ==
    <<"'", "e", "r", "r", "o", "r", "_", "c", "o", "d", "e", "'">>

\* "Document produced no valid chunks"
NoChunksMessage ==
    <<"D", "o", "c", "u", "m", "e", "n", "t", " ", "p", "r", "o", "d", "u", "c", "e", "d",
      " ", "n", "o", " ", "v", "a", "l", "i", "d", " ", "c", "h", "u", "n", "k", "s">>

\* "Document produced {len(chunks)} chunks, max allowed is {max_chunks}"
TooManyChunksMessage ==
    <<"D", "o", "c", "u", "m", "e", "n", "t", " ", "p", "r", "o", "d", "u", "c", "e", "d",
      " ", "t", "o", "o", " ", "m", "a", "n", "y", " ", "c", "h", "u", "n", "k", "s">>

MarkerNotFound == <<"n", "o", "t", " ", "f", "o", "u", "n", "d">>
MarkerProtected == <<"p", "r", "o", "t", "e", "c", "t", "e", "d">>
MarkerEncrypted == <<"e", "n", "c", "r", "y", "p", "t", "e", "d">>
MarkerTooLarge == <<"t", "o", "o", " ", "l", "a", "r", "g", "e">>
MarkerUnsupported == <<"u", "n", "s", "u", "p", "p", "o", "r", "t", "e", "d">>
MarkerParsingFailed == <<"p", "a", "r", "s", "i", "n", "g", " ", "f", "a", "i", "l", "e", "d">>
MarkerTooManyChunks == <<"t", "o", "o", "_", "m", "a", "n", "y", "_", "c", "h", "u", "n", "k", "s">>

\* max_chunks_per_doc of DocumentParser, the default of max_chunks_per_document
MaxChunksPerDocument == 2000

\* supported_formats of DocumentParser
SupportedFormats == {".pdf", ".md", ".html", ".txt", ".docx"}

IngestPaths == {"a.md", "b.md", "x.bin"}

\* Path(file_path).suffix.lower()
SuffixOf(file_path) == IF file_path = "x.bin" THEN ".bin" ELSE ".md"

is_supported_format(file_path) == SuffixOf(file_path) \in SupportedFormats

\* what a path holds: nothing, or a content with its hash and the number of
\* chunks create_chunks makes of its text
NoFile == [exists |-> FALSE, content_hash |-> "", n_chunks |-> 0]

FileContent(h, n) == [exists |-> TRUE, content_hash |-> h, n_chunks |-> n]

FileContents == {NoFile, FileContent("h0", 0), FileContent("h1", 1), FileContent("h2", 2)}

\* str(uuid.uuid4()): the n-th value handed out, different from all others
Uuid(n) == <<"uuid", n>>

\* hasattr(obj, name)
HasAttr(obj, name) == name \in DOMAIN obj

\* "Classify error" of process_single_document
ErrorCode(error_msg) ==
    IF Contains(MarkerNotFound, lower(error_msg)) THEN "FILE_NOT_FOUND"
    ELSE IF \/ Contains(MarkerProtected, lower(error_msg))
            \/ Contains(MarkerEncrypted, lower(error_msg)) THEN "PDF_PROTECTED"
    ELSE IF Contains(MarkerTooLarge, lower(error_msg)) THEN "FILE_TOO_LARGE"
    ELSE IF Contains(MarkerUnsupported, lower(error_msg)) THEN "UNSUPPORTED_FORMAT"
    ELSE IF Contains(MarkerParsingFailed, lower(error_msg)) THEN "PARSING_FAILED"
    ELSE IF Contains(MarkerTooManyChunks, error_msg) THEN "CHUNK_LIMIT_EXCEEDED"
    ELSE "PROCESSING_ERROR"

\* the dict the "except Exception as e" of process_single_document returns
ErrorResult(error_msg, file_path) ==
    [status |-> "error", error_code |-> ErrorCode(error_msg), error |-> error_msg,
     file_path |-> file_path]

\* the stores and the uuid count as a call leaves them
Stores(rows, points, docs, uuids) ==
    [documents |-> rows, qdrant_points |-> points, es_docs |-> docs, uuid_count |-> uuids]

\* the chunks of create_chunks(doc_data["text"], doc_data): chunk_id, doc_id
\* and metadata.source are taken from doc_data
ChunksOf(doc_id, file_path, n_chunks) ==
    {[chunk_id |-> <<doc_id, i>>, doc_id |-> doc_id, source |-> file_path] : i \in 1..n_chunks}

\* the row save_document_metadata inserts, under a doc_id of its own
DocumentRow(doc_id, file_path, content, chunks_count) ==
    [doc_id |-> doc_id, source_path |-> file_path, content_hash |-> content.content_hash,
     total_chunks |-> chunks_count]

\* the writes of a process_single_document call that reaches "indexed":
\* doc_data["doc_id"] = str(uuid.uuid4()), the two index_chunks calls and
\* save_document_metadata with its two uuid4 calls
index_and_save(file_path, content, st) ==
    LET chunks == ChunksOf(Uuid(st.uuid_count + 1), file_path, content.n_chunks)
    IN  Stores(st.documents
                  \cup {DocumentRow(Uuid(st.uuid_count + 2), file_path, content,
                                    content.n_chunks)},
               st.qdrant_points \cup chunks,
               st.es_docs \cup chunks,
               st.uuid_count + 3)

\* process_single_document with the limit read from the parser's
\* max_chunks_per_doc, so that the index calls are reached
process_single_document_limit(self_chunker, file_path, content, st, env) ==
    IF ~content.exists
    THEN [result |-> ErrorResult(FileNotFoundPrefix \o <<file_path>>, file_path), stores |-> st]
    ELSE
    LET existing == {row \in st.documents : row.content_hash = content.content_hash}
        stores_130 == [st EXCEPT !.uuid_count = @ + 1]
        doc_id == Uuid(st.uuid_count + 1)
        chunks == ChunksOf(doc_id, file_path, content.n_chunks)
    IN  IF env.check_ok /\ existing # {}
        THEN LET row == CHOOSE r \in existing : TRUE
             IN  [result |-> [status |-> "skipped", reason |-> "already_exists",
                              doc_id |-> row.doc_id, chunks |-> row.total_chunks],
                  stores |-> st]
        ELSE IF chunks = {}
        THEN [result |-> [status |-> "error", reason |-> "no_chunks_created",
                          error |-> NoChunksMessage],
              stores |-> stores_130]
        ELSE IF Cardinality(chunks) > MaxChunksPerDocument
        THEN [result |-> [status |-> "error", reason |-> "too_many_chunks",
                          error |-> TooManyChunksMessage],
              stores |-> stores_130]
        ELSE IF ~env.vector_ok
        THEN [result |-> ErrorResult(IndexingFailedMessage, file_path), stores |-> stores_130]
        ELSE IF ~env.search_ok
        THEN [result |-> ErrorResult(IndexingFailedMessage, file_path),
              stores |-> [stores_130 EXCEPT !.qdrant_points = @ \cup chunks]]
        ELSE IF ~env.save_ok
        THEN [result |-> ErrorResult(DatabaseFailedMessage, file_path),
              stores |-> [index_and_save(file_path, content, st)
                              EXCEPT !.documents = st.documents]]
        ELSE [result |-> [status |-> "indexed", doc_id |-> Uuid(st.uuid_count + 2),
                          chunks |-> Cardinality(chunks),
                          chunk_ids |-> {c.chunk_id : c \in chunks}],
              stores |-> index_and_save(file_path, content, st)]

\* process_single_document(file_path, db): the dict it returns and the stores
\* as it leaves them; env says which of the calls to the database and to the
\* indexes raise
process_single_document(self_chunker, file_path, content, st, env) ==
    IF ~content.exists
    THEN [result |-> ErrorResult(FileNotFoundPrefix \o <<file_path>>, file_path), stores |-> st]
    ELSE
    LET existing == {row \in st.documents : row.content_hash = content.content_hash}
        stores_130 == [st EXCEPT !.uuid_count = @ + 1]
        doc_id == Uuid(st.uuid_count + 1)
        chunks == ChunksOf(doc_id, file_path, content.n_chunks)
    IN  IF env.check_ok /\ existing # {}
        THEN LET row == CHOOSE r \in existing : TRUE
             IN  [result |-> [status |-> "skipped", reason |-> "already_exists",
                              doc_id |-> row.doc_id, chunks |-> row.total_chunks],
                  stores |-> st]
        ELSE IF chunks = {}
        THEN [result |-> [status |-> "error", reason |-> "no_chunks_created",
                          error |-> NoChunksMessage],
              stores |-> stores_130]
        ELSE IF ~HasAttr(self_chunker, "max_chunks_per_doc")
        THEN [result |-> ErrorResult(NoAttributeMessage, file_path), stores |-> stores_130]
        ELSE IF Cardinality(chunks) > self_chunker.max_chunks_per_doc
        THEN [result |-> [status |-> "error", reason |-> "too_many_chunks",
                          error |-> TooManyChunksMessage],
              stores |-> stores_130]
        ELSE IF ~env.vector_ok
        THEN [result |-> ErrorResult(IndexingFailedMessage, file_path), stores |-> stores_130]
        ELSE IF ~env.search_ok
        THEN [result |-> ErrorResult(IndexingFailedMessage, file_path),
              stores |-> [stores_130 EXCEPT !.qdrant_points = @ \cup chunks]]
        ELSE IF ~env.save_ok
        THEN [result |-> ErrorResult(DatabaseFailedMessage, file_path),
              stores |-> [index_and_save(file_path, content, st)
                              EXCEPT !.documents = st.documents]]
        ELSE [result |-> [status |-> "indexed", doc_id |-> Uuid(st.uuid_count + 2),
                          chunks |-> Cardinality(chunks),
                          chunk_ids |-> {c.chunk_id : c \in chunks}],
              stores |-> index_and_save(file_path, content, st)]

\* which calls of a request raise
IngestEnvs == [check_ok : BOOLEAN, vector_ok : BOOLEAN, search_ok : BOOLEAN, save_ok : BOOLEAN]

\* documents ingested before the request: the stores hold what the statements
\* of process_single_document write for a document that is indexed
EarlierFiles ==
    {<<>>,
     <<[path |-> "a.md", content |-> FileContent("h1", 1)]>>,
     <<[path |-> "b.md", content |-> FileContent("h2", 2)]>>,
     <<[path |-> "a.md", content |-> FileContent("h1", 1)],
       [path |-> "b.md", content |-> FileContent("h2", 2)]>>}

RECURSIVE StoresAfter(_)
StoresAfter(files) ==
    IF files = <<>> THEN Stores({}, {}, {}, 0)
    ELSE LET last == files[Len(files)]
         IN  index_and_save(last.path, last.content, StoresAfter(SubSeq(files, 1, Len(files) - 1)))

InitIngest ==
    /\ \E files \in EarlierFiles :
          /\ documents = StoresAfter(files).documents
          /\ qdrant_points = StoresAfter(files).qdrant_points
          /\ es_docs = StoresAfter(files).es_docs
          /\ uuid_count = StoresAfter(files).uuid_count
    /\ disk \in {d \in [IngestPaths -> FileContents] : d["x.bin"] = NoFile}
    /\ ingest_paths \in DistinctSeqs(IngestPaths, MaxPaths)
    /\ delete_missing \in BOOLEAN
    /\ ingest_pc = "validate"
    /\ path_index = 1
    /\ ingest_results = <<>> /\ ingest_errors = <<>>
    /\ indexed_count = 0 /\ skipped_count = 0 /\ ingest_doc_ids = <<>>
    /\ deleted_count = 0 /\ deleted_log = {}
    /\ ingest_response = NoIngestResponse
    /\ FusionIdle /\ DedupIdle /\ LlmIdle /\ AskIdle /\ SearchIdle /\ ChunkerIdle
    /\ RulesIdle /\ RerankerIdle /\ EndpointIdle /\ LateIdle

\* "if not request.paths" and "if unsupported_paths": HTTPException 400 or 415
IngestReject ==
    /\ ingest_pc = "validate"
    /\ \/ ingest_paths = <<>> /\ ingest_response' = [status_code |-> 400]
       \/ /\ ingest_paths # <<>>
          /\ \E i \in 1..Len(ingest_paths) : ~is_supported_format(ingest_paths[i])
          /\ ingest_response' = [status_code |-> 415]
    /\ ingest_pc' = "rejected"
    /\ UNCHANGED <<documents, qdrant_points, es_docs, uuid_count, disk, ingest_paths,
                   delete_missing, path_index, ingest_results, ingest_errors, indexed_count,
                   skipped_count, ingest_doc_ids, deleted_count, deleted_log>>
    /\ UNCHANGED ingestFrame

\* the validation passes
IngestAccept ==
    /\ ingest_pc = "validate"
    /\ ingest_paths # <<>>
    /\ \A i \in 1..Len(ingest_paths) : is_supported_format(ingest_paths[i])
    /\ ingest_pc' = "loop"
    /\ UNCHANGED <<documents, qdrant_points, es_docs, uuid_count, disk, ingest_paths,
                   delete_missing, path_index, ingest_results, ingest_errors, indexed_count,
                   skipped_count, ingest_doc_ids, deleted_count, deleted_log, ingest_response>>
    /\ UNCHANGED ingestFrame

\* one iteration of "for path in request.paths"
IngestProcess ==
    /\ ingest_pc = "loop"
    /\ path_index <= Len(ingest_paths)
    /\ \E env \in IngestEnvs :
          LET path == ingest_paths[path_index]
              out == process_single_document(
                         chunker, path, disk[path],
                         Stores(documents, qdrant_points, es_docs, uuid_count), env)
              result == out.result
          IN  /\ documents' = out.stores.documents
              /\ qdrant_points' = out.stores.qdrant_points
              /\ es_docs' = out.stores.es_docs
              /\ uuid_count' = out.stores.uuid_count
              /\ ingest_results' = Append(ingest_results, result)
              /\ indexed_count' = indexed_count + (IF result.status = "indexed" THEN 1 ELSE 0)
              /\ skipped_count' = skipped_count + (IF result.status = "skipped" THEN 1 ELSE 0)
              /\ ingest_doc_ids' =
                    IF result.status \in {"indexed", "skipped"}
                    THEN Append(ingest_doc_ids, result.doc_id) ELSE ingest_doc_ids
              /\ ingest_errors' =
                    IF result.status \in {"indexed", "skipped"} THEN ingest_errors
                    ELSE IF "error_code" \in DOMAIN result
                    THEN Append(ingest_errors,
                                [path |-> path, error |-> result.error,
                                 code |-> result.error_code])
                    \* result["error_code"] raises KeyError
                    ELSE Append(ingest_errors,
                                [path |-> path, error |-> KeyErrorMessage,
                                 code |-> "UNEXPECTED_ERROR"])
    /\ path_index' = path_index + 1
    /\ UNCHANGED <<disk, ingest_paths, delete_missing, ingest_pc, deleted_count, deleted_log,
                   ingest_response>>
    /\ UNCHANGED ingestFrame

\* the outcomes of the body of "for doc_id, path in docs_to_delete"
DeleteOutcomes == {"deleted", "vector_fails", "search_fails", "database_fails"}

\* delete_missing_documents(request.paths, db) when request.delete_missing is set
IngestDeleteMissing ==
    /\ ingest_pc = "loop"
    /\ path_index > Len(ingest_paths)
    /\ delete_missing
    /\ \/ \* the SELECT raises: "return 0"
          UNCHANGED <<documents, qdrant_points, es_docs, deleted_count, deleted_log>>
       \/ \* existing_docs maps a path to the doc_id of its row (no two rows of
          \* the table share a path here)
          LET docs_to_delete == {row \in documents : row.source_path \notin Range(ingest_paths)}
          IN  \E outcome \in [docs_to_delete -> DeleteOutcomes] :
                LET from_qdrant == {row.doc_id : row \in {r \in docs_to_delete :
                                        outcome[r] # "vector_fails"}}
                    from_es == {row.doc_id : row \in {r \in docs_to_delete :
                                        outcome[r] \in {"deleted", "database_fails"}}}
                    deleted == {r \in docs_to_delete : outcome[r] = "deleted"}
                IN  /\ qdrant_points' = {c \in qdrant_points : c.doc_id \notin from_qdrant}
                    /\ es_docs' = {c \in es_docs : c.doc_id \notin from_es}
                    /\ documents' = {r \in documents :
                                        r.doc_id \notin {d.doc_id : d \in deleted}}
                    /\ deleted_count' = Cardinality(deleted)
                    /\ deleted_log' = {<<r.doc_id, r.source_path>> : r \in deleted}
    /\ ingest_pc' = "respond"
    /\ UNCHANGED <<uuid_count, disk, ingest_paths, delete_missing, path_index, ingest_results,
                   ingest_errors, indexed_count, skipped_count, ingest_doc_ids,
                   ingest_response>>
    /\ UNCHANGED ingestFrame

\* "return IngestResponse(...)"
IngestReturn ==
    /\ \/ ingest_pc = "respond"
       \/ ingest_pc = "loop" /\ path_index > Len(ingest_paths) /\ ~delete_missing
    /\ ingest_response' = [status_code |-> 200, indexed |-> indexed_count,
                           skipped |-> skipped_count, errors |-> ingest_errors,
                           doc_ids |-> ingest_doc_ids]
    /\ ingest_pc' = "returned"
    /\ UNCHANGED <<documents, qdrant_points, es_docs, uuid_count, disk, ingest_paths,
                   delete_missing, path_index, ingest_results, ingest_errors, indexed_count,
                   skipped_count, ingest_doc_ids, deleted_count, deleted_log>>
    /\ UNCHANGED ingestFrame

NextIngest ==
    IngestReject \/ IngestAccept \/ IngestProcess \/ IngestDeleteMissing \/ IngestReturn

SpecIngest == InitIngest /\ [][NextIngest]_vars

\* ---------------------------------------------------------- POST /ask
endpointFrame == <<fusionVars, dedupVars, llmVars, askVars, searchVars, chunkVars, rulesVars,
                   rerankerVars, ingestVars,
    lateVars>>

\* "if len(question) < 5" and "if len(question) > 500"
MinQuestionLength == 5

MaxQuestionLength == 500

\* detail of the 504: "Request timeout - please try again"
TimeoutDetail ==
    <<"R", "e", "q", "u", "e", "s", "t", " ", "t", "i", "m", "e", "o", "u", "t", " ", "-",
      " ", "p", "l", "e", "a", "s", "e", " ", "t", "r", "y", " ", "a", "g", "a", "i", "n">>

\* detail of the first 503: "LLM service temporarily unavailable"
ModelUnavailableDetail ==
    <<"L", "L", "M", " ", "s", "e", "r", "v", "i", "c", "e", " ", "t", "e", "m", "p", "o",
      "r", "a", "r", "i", "l", "y", " ", "u", "n", "a", "v", "a", "i", "l", "a", "b", "l",
      "e">>

\* detail of the second 503: "External service connection failed"
ConnectionDetail ==
    <<"E", "x", "t", "e", "r", "n", "a", "l", " ", "s", "e", "r", "v", "i", "c", "e", " ",
      "c", "o", "n", "n", "e", "c", "t", "i", "o", "n", " ", "f", "a", "i", "l", "e", "d">>

\* detail of the 500: "Internal processing error"
InternalDetail ==
    <<"I", "n", "t", "e", "r", "n", "a", "l", " ", "p", "r", "o", "c", "e", "s", "s", "i",
      "n", "g", " ", "e", "r", "r", "o", "r">>

\* "Question is too short (minimum 5 characters)"
TooShortDetail ==
    <<"Q", "u", "e", "s", "t", "i", "o", "n", " ", "i", "s", " ", "t", "o", "o", " ", "s",
      "h", "o", "r", "t", " ", "(", "m", "i", "n", "i", "m", "u", "m", " ", "5", " ", "c",
      "h", "a", "r", "a", "c", "t", "e", "r", "s", ")">>

\* "Question is too long (maximum 500 characters)"
TooLongDetail ==
    <<"Q", "u", "e", "s", "t", "i", "o", "n", " ", "i", "s", " ", "t", "o", "o", " ", "l",
      "o", "n", "g", " ", "(", "m", "a", "x", "i", "m", "u", "m", " ", "5", "0", "0", " ",
      "c", "h", "a", "r", "a", "c", "t", "e", "r", "s", ")">>

\* "Internal server error: ", the prefix a handler puts before str(e)
RawDetailPrefix ==
    <<"I", "n", "t", "e", "r", "n", "a", "l", " ", "s", "e", "r", "v", "e", "r", " ", "e",
      "r", "r", "o", "r", ":", " ">>

\* the ValueError of generate_response: "Model {model_name} is not available
\* and could not be pulled"
ModelNotPulledPrefix ==
    <<"M", "o", "d", "e", "l", " ">>

\* the rest of that message
ModelNotPulledSuffix ==
    <<" ", "i", "s", " ", "n", "o", "t", " ", "a", "v", "a", "i", "l", "a", "b", "l", "e",
      " ", "a", "n", "d", " ", "c", "o", "u", "l", "d", " ", "n", "o", "t", " ", "b", "e",
      " ", "p", "u", "l", "l", "e", "d">>

\* texts of exceptions of the HTTP clients, the index clients and the model
\* loader, as str(e) gives them
ReadTimeoutText ==
    <<"R", "e", "q", "u", "e", "s", "t", " ", "T", "i", "m", "e", "o", "u", "t", " ", "a",
      "f", "t", "e", "r", " ", "1", "2", "0", "s">>

TimedOutText ==
    <<"t", "i", "m", "e", "d", " ", "o", "u", "t">>

ConnectionTimeoutText ==
    <<"C", "o", "n", "n", "e", "c", "t", "i", "o", "n", " ", "t", "i", "m", "e", "o", "u",
      "t", " ", "c", "a", "u", "s", "e", "d", " ", "b", "y", " ", "R", "e", "a", "d", "T",
      "i", "m", "e", "o", "u", "t", "E", "r", "r", "o", "r">>

ConnectErrorText ==
    <<"A", "l", "l", " ", "c", "o", "n", "n", "e", "c", "t", "i", "o", "n", " ", "a", "t",
      "t", "e", "m", "p", "t", "s", " ", "f", "a", "i", "l", "e", "d">>

NetworkText ==
    <<"N", "e", "t", "w", "o", "r", "k", " ", "i", "s", " ", "u", "n", "r", "e", "a", "c",
      "h", "a", "b", "l", "e">>

ModelNotFoundText ==
    <<"m", "o", "d", "e", "l", " ", "'", "l", "l", "a", "m", "a", "3", "'", " ", "n", "o",
      "t", " ", "f", "o", "u", "n", "d", ",", " ", "t", "r", "y", " ", "p", "u", "l", "l",
      "i", "n", "g", " ", "i", "t", " ", "f", "i", "r", "s", "t">>

ServerErrorText ==
    <<"S", "e", "r", "v", "e", "r", " ", "e", "r", "r", "o", "r", " ", "'", "5", "0", "0",
      " ", "I", "n", "t", "e", "r", "n", "a", "l", " ", "S", "e", "r", "v", "e", "r", " ",
      "E", "r", "r", "o", "r", "'", " ", "f", "o", "r", " ", "u", "r", "l", " ", "'", "h",
      "t", "t", "p", ":", "/", "/", "o", "l", "l", "a", "m", "a", ":", "1", "1", "4", "3",
      "4", "/", "a", "p", "i", "/", "g", "e", "n", "e", "r", "a", "t", "e", "'">>

KeyErrorText ==
    <<"'", "a", "n", "s", "w", "e", "r", "'">>

EmptyText ==
    <<>>

MarkerTimeout == <<"t", "i", "m", "e", "o", "u", "t">>
MarkerModel == <<"m", "o", "d", "e", "l">>
MarkerNotAvailable == <<"n", "o", "t", " ", "a", "v", "a", "i", "l", "a", "b", "l", "e">>
MarkerConnection == <<"c", "o", "n", "n", "e", "c", "t", "i", "o", "n">>
MarkerNetwork == <<"n", "e", "t", "w", "o", "r", "k">>

\* the model names of the configuration
ModelNames == {<<"l", "l", "a", "m", "a", "3">>, <<"q", "w", "e", "n">>}

\* str(e) of the exceptions process_question lets through
PipelineMessages ==
    {ModelNotPulledPrefix \o name \o ModelNotPulledSuffix : name \in ModelNames}
        \cup {ReadTimeoutText, TimedOutText, ConnectionTimeoutText, ConnectErrorText,
              NetworkText, ModelNotFoundText, ServerErrorText, KeyErrorText, EmptyText}

\* a handler that answers with the text of the exception
error_response_raw(message) ==
    [status_code |-> 500, detail |-> RawDetailPrefix \o message]

\* "Classify error types" of ask_question: the HTTPException raised for str(e)
error_response(message) ==
    LET error_msg == lower(message)
    IN  IF Contains(MarkerTimeout, error_msg)
            THEN [status_code |-> 504, detail |-> TimeoutDetail]
        ELSE IF /\ Contains(MarkerModel, error_msg)
                /\ \/ Contains(MarkerNotAvailable, error_msg)
                   \/ Contains(MarkerNotFound, error_msg)
            THEN [status_code |-> 503, detail |-> ModelUnavailableDetail]
        ELSE IF Contains(MarkerConnection, error_msg) \/ Contains(MarkerNetwork, error_msg)
            THEN [status_code |-> 503, detail |-> ConnectionDetail]
        ELSE [status_code |-> 500, detail |-> InternalDetail]

\* a question of n characters, with blanks around it or not
QuestionOf(n, padded) ==
    LET body == [i \in 1..n |-> "q"]
    IN  IF padded THEN <<" ">> \o body \o <<" ", "\n">> ELSE body

RequestQuestions ==
    {QuestionOf(n, padded) :
        n \in {0, MinQuestionLength - 1, MinQuestionLength, MinQuestionLength + 1,
               MaxQuestionLength - 1, MaxQuestionLength, MaxQuestionLength + 1},
        padded \in BOOLEAN}

\* the answers of a pipeline that returns
PipelineAnswers == {<<"o", "k">>, <<>>}

InitEndpoint ==
    /\ request_question \in RequestQuestions
    /\ endpoint_pc = "validate"
    /\ pipeline_exception = None
    /\ http_response = NoHttpResponse
    /\ FusionIdle /\ DedupIdle /\ LlmIdle /\ AskIdle /\ SearchIdle /\ ChunkerIdle
    /\ RulesIdle /\ RerankerIdle /\ IngestIdle /\ LateIdle

\* "Validate question": HTTPException 400, handed on by "except HTTPException: raise"
EndpointReject ==
    /\ endpoint_pc = "validate"
    /\ LET question == strip(request_question)
       IN  \/ /\ Len(question) < MinQuestionLength
              /\ http_response' = [status_code |-> 400, detail |-> TooShortDetail]
           \/ /\ Len(question) >= MinQuestionLength
              /\ Len(question) > MaxQuestionLength
              /\ http_response' = [status_code |-> 400, detail |-> TooLongDetail]
    /\ endpoint_pc' = "raised"
    /\ UNCHANGED <<request_question, pipeline_exception>>
    /\ UNCHANGED endpointFrame

\* the question passes and "await rag_pipeline.process_question(question)" starts
EndpointCallPipeline ==
    /\ endpoint_pc = "validate"
    /\ Len(strip(request_question)) >= MinQuestionLength
    /\ Len(strip(request_question)) <= MaxQuestionLength
    /\ endpoint_pc' = "pipeline"
    /\ UNCHANGED <<request_question, pipeline_exception, http_response>>
    /\ UNCHANGED endpointFrame

\* process_question returns: "return AskResponse(...)"
EndpointReturn ==
    /\ endpoint_pc = "pipeline"
    /\ \E answer \in PipelineAnswers :
          http_response' = [status_code |-> 200, answer |-> answer]
    /\ endpoint_pc' = "returned"
    /\ UNCHANGED <<request_question, pipeline_exception>>
    /\ UNCHANGED endpointFrame

\* process_question raises: "except Exception as e" classifies str(e)
EndpointRaise ==
    /\ endpoint_pc = "pipeline"
    /\ \E message \in PipelineMessages :
          /\ pipeline_exception' = Some(message)
          /\ http_response' = error_response(message)
    /\ endpoint_pc' = "raised"
    /\ UNCHANGED request_question
    /\ UNCHANGED endpointFrame

NextEndpoint == EndpointReject \/ EndpointCallPipeline \/ EndpointReturn \/ EndpointRaise

SpecEndpoint == InitEndpoint /\ [][NextEndpoint]_vars

\* ------------------------------ RerankerService / EmbeddingService._load_model
\* Both services load their model lazily with the same code.  Every caller is
\* a coroutine of the one event loop of the process (process_question awaits
\* search, calls rerank_results, awaits generate_response), and _load_model has
\* no await between the test of _model_loaded and its assignment, so one call
\* of _load_model is one step; requests interleave at their awaits.
loaderFrame == <<fusionVars, dedupVars, llmVars, askVars, searchVars, chunkVars, rulesVars,
                 rerankerVars, ingestVars, endpointVars, storeVars>>

\* the requests that run at the same time
MaxRequests == 2
\* the requests started one after another in each of these
MaxRounds == 2

Requests == 1..MaxRequests

\* str(e) of what the model constructor raises
LoadError == "model load failed"

\* a load that is attempted whatever the flag says
NeedsLoadAlways(service) == TRUE

\* "if not self._model_loaded"
NeedsLoad(service) == ~model_flag[service]

\* _load_model() of a service when the constructor returns a model
load_model_ok(service) ==
    /\ load_calls' = [load_calls EXCEPT ![service] = @ + 1]
    /\ model_handle' = [model_handle EXCEPT ![service] = Some(load_calls[service] + 1)]
    /\ model_flag' = [model_flag EXCEPT ![service] = TRUE]

\* _load_model() of a service when the constructor raises: "raise" after the
\* log line, self.model and self._model_loaded are not assigned
load_model_raises(service) ==
    /\ load_calls' = [load_calls EXCEPT ![service] = @ + 1]
    /\ UNCHANGED <<model_handle, model_flag>>

\* the service a request uses at each of its two synchronous calls
ServiceAt(pc) == IF pc = "search" THEN "embedding" ELSE "reranker"

AfterCall(pc) == IF pc = "search" THEN "rerank" ELSE "generate"

InitLoader ==
    /\ model_flag = [s \in Services |-> FALSE]
    /\ model_handle = [s \in Services |-> None]
    /\ load_calls = [s \in Services |-> 0]
    /\ request_pc = [r \in Requests |-> "search"]
    /\ request_error = [r \in Requests |-> ""]
    /\ request_count = MaxRequests
    /\ FusionIdle /\ DedupIdle /\ LlmIdle /\ AskIdle /\ SearchIdle /\ ChunkerIdle
    /\ RulesIdle /\ RerankerIdle /\ IngestIdle /\ EndpointIdle /\ StoreIdle

\* encode_texts (embeddings.py:61) or rerank_results (reranker.py:67) calls
\* _load_model, the model is there already, and the call goes on
LoaderUseLoaded(r) ==
    /\ request_pc[r] \in {"search", "rerank"}
    /\ ~NeedsLoad(ServiceAt(request_pc[r]))
    /\ request_pc' = [request_pc EXCEPT ![r] = AfterCall(@)]
    /\ UNCHANGED <<model_flag, model_handle, load_calls, request_error, request_count>>
    /\ UNCHANGED loaderFrame

\* the call finds no model and the constructor returns one
LoaderLoad(r) ==
    /\ request_pc[r] \in {"search", "rerank"}
    /\ NeedsLoad(ServiceAt(request_pc[r]))
    /\ load_model_ok(ServiceAt(request_pc[r]))
    /\ request_pc' = [request_pc EXCEPT ![r] = AfterCall(@)]
    /\ UNCHANGED <<request_error, request_count>>
    /\ UNCHANGED loaderFrame

\* the call finds no model and the constructor raises: encode_texts lets the
\* exception through, rerank_results logs it and re-raises, and so do
\* search_similar_chunks, search and process_question
LoaderLoadFails(r) ==
    /\ request_pc[r] \in {"search", "rerank"}
    /\ NeedsLoad(ServiceAt(request_pc[r]))
    /\ load_model_raises(ServiceAt(request_pc[r]))
    /\ request_pc' = [request_pc EXCEPT ![r] = "failed"]
    /\ request_error' = [request_error EXCEPT ![r] = LoadError]
    /\ UNCHANGED request_count
    /\ UNCHANGED loaderFrame

\* "if not search_results: return {...}" (ask.py:38): the request ends before
\* the reranker is used
LoaderNoResults(r) ==
    /\ request_pc[r] = "rerank"
    /\ request_pc' = [request_pc EXCEPT ![r] = "done"]
    /\ UNCHANGED <<model_flag, model_handle, load_calls, request_error, request_count>>
    /\ UNCHANGED loaderFrame

\* await self.llm_service.generate_response(...) and the return
LoaderGenerate(r) ==
    /\ request_pc[r] = "generate"
    /\ request_pc' = [request_pc EXCEPT ![r] = "done"]
    /\ UNCHANGED <<model_flag, model_handle, load_calls, request_error, request_count>>
    /\ UNCHANGED loaderFrame

\* the next request arrives where one has ended
LoaderNextRequest(r) ==
    /\ request_pc[r] \in {"done", "failed"}
    /\ request_count < MaxRequests * MaxRounds
    /\ request_count' = request_count + 1
    /\ request_pc' = [request_pc EXCEPT ![r] = "search"]
    /\ request_error' = [request_error EXCEPT ![r] = ""]
    /\ UNCHANGED <<model_flag, model_handle, load_calls>>
    /\ UNCHANGED loaderFrame

NextLoader ==
    \E r \in Requests :
        \/ LoaderUseLoaded(r)
        \/ LoaderLoad(r)
        \/ LoaderLoadFails(r)
        \/ LoaderNoResults(r)
        \/ LoaderGenerate(r)
        \/ LoaderNextRequest(r)

SpecLoader == InitLoader /\ [][NextLoader]_vars

\* ------------------- the demo's POST /ingest and DELETE /documents/{doc_id}
\* Both handlers are coroutines without an await: a request runs from its
\* first statement to its return before the next one starts.
storeFrame == <<fusionVars, dedupVars, llmVars, handler, ask_pc, trace, initial_results,
                reranked_results, deduplicated_sections, generator_input, ask_response,
                ask_error, searchVars, chunkVars, rulesVars, rerankerVars, ingestVars,
                endpointVars, loaderVars>>

\* the requests of a behaviour
MaxStoreRequests == 3
\* the paths of one /ingest request
MaxStorePaths == 2

StorePaths == {"a.md", "b.md", "c.pdf"}

\* what a file can hold; chunk_text gives no chunk for the first (a blank
\* text), one for the second and two for the third
StoreContents == {"t0", "t1", "t2"}

\* len(chunk_text(content))
ChunkCount(content) == CASE content = "t0" -> 0 [] content = "t1" -> 1 [] OTHER -> 2

\* chunk_text(doc_data["content"]): the chunks, in order
chunk_text(content) == [i \in 1..ChunkCount(content) |-> <<content, i>>]

FileNotFound == "File not found"
PdfNotSupported == "PDF format requires additional libraries"

\* parse_document(file_path): the dict, or the message of what it raises
parse_document(file_path, disk_arg) ==
    IF disk_arg[file_path] = "missing" THEN [raised |-> FileNotFound]
    ELSE IF file_path = "c.pdf" THEN [raised |-> PdfNotSupported]
    ELSE [path |-> file_path, content |-> disk_arg[file_path],
          content_hash |-> md5(disk_arg[file_path]), extension |-> ".md"]

\* the doc_ids a DELETE request can name
StoreDocIds == {md5(c) : c \in StoreContents}

\* CHUNK_STORE[chunk_id] = {...} for every chunk of the document
WithChunks(store, doc_id, file_path, chunks) ==
    {c \in store : c.chunk_id \notin {<<doc_id, i - 1>> : i \in 1..Len(chunks)}}
    \cup {[chunk_id |-> <<doc_id, i - 1>>, text |-> chunks[i], source |-> file_path,
           doc_id |-> doc_id, chunk_index |-> i - 1] : i \in 1..Len(chunks)}

\* an ingest that stores the document again although its hash is known
IsStoredNever(doc_id, store) == FALSE

\* "if doc_id in DOCUMENT_STORE"
IsStored(doc_id, store) == doc_id \in DOMAIN store

\* a delete that leaves the chunks of the document in CHUNK_STORE
chunks_to_delete_none(doc_id, store) == {}

\* chunks_to_delete of delete_document
chunks_to_delete(doc_id, store) == {c \in store : c.doc_id = doc_id}

\* DOCUMENT_STORE = {} and CHUNK_STORE = {} (the latter is part of AskIdle)
InitStore ==
    /\ DOCUMENT_STORE = <<>>
    /\ store_disk \in {d \in [StorePaths -> StoreContents \cup {"missing"}] :
                            d["c.pdf"] \in {"missing", "t1"}}
    /\ store_pc = "idle"
    /\ store_paths = <<>> /\ store_index = 1 /\ store_counts = NoCounts
    /\ store_response = <<>> /\ store_requests = 0
    /\ FusionIdle /\ DedupIdle /\ LlmIdle /\ AskIdle /\ SearchIdle /\ ChunkerIdle
    /\ RulesIdle /\ RerankerIdle /\ IngestIdle /\ EndpointIdle /\ LoaderIdle

\* POST /ingest arrives: indexed_count = 0, skipped_count = 0, errors = []
StoreIngestStart ==
    /\ store_pc = "idle"
    /\ store_requests < MaxStoreRequests
    /\ store_paths' \in SeqsUpTo(StorePaths, MaxStorePaths)
    /\ store_pc' = "ingest"
    /\ store_index' = 1
    /\ store_counts' = NoCounts
    /\ UNCHANGED <<DOCUMENT_STORE, CHUNK_STORE, store_disk, store_response, store_requests>>
    /\ UNCHANGED storeFrame

\* one iteration of "for file_path in request.paths"
StoreIngestFile ==
    /\ store_pc = "ingest"
    /\ store_index <= Len(store_paths)
    /\ LET file_path == store_paths[store_index]
           doc_data == parse_document(file_path, store_disk)
       IN  IF "raised" \in DOMAIN doc_data
           THEN /\ store_counts' =
                      [store_counts EXCEPT !.errors =
                          Append(@, [path |-> file_path, error |-> doc_data.raised,
                                     code |-> "PROCESSING_ERROR"])]
                /\ UNCHANGED <<DOCUMENT_STORE, CHUNK_STORE>>
           ELSE IF IsStored(doc_data.content_hash, DOCUMENT_STORE)
           THEN /\ store_counts' = [store_counts EXCEPT !.skipped = @ + 1]
                /\ UNCHANGED <<DOCUMENT_STORE, CHUNK_STORE>>
           ELSE LET doc_id == doc_data.content_hash
                    chunks == chunk_text(doc_data.content)
                IN  /\ DOCUMENT_STORE' =
                          [d \in DOMAIN DOCUMENT_STORE \cup {doc_id} |->
                              IF d = doc_id THEN doc_data ELSE DOCUMENT_STORE[d]]
                    /\ CHUNK_STORE' = WithChunks(CHUNK_STORE, doc_id, file_path, chunks)
                    /\ store_counts' = [store_counts EXCEPT !.indexed = @ + Len(chunks)]
    /\ store_index' = store_index + 1
    /\ UNCHANGED <<store_disk, store_pc, store_paths, store_response, store_requests>>
    /\ UNCHANGED storeFrame

\* the return of ingest_documents
StoreIngestReturn ==
    /\ store_pc = "ingest"
    /\ store_index > Len(store_paths)
    /\ store_response' = [request |-> "ingest", indexed |-> store_counts.indexed,
                          skipped |-> store_counts.skipped, errors |-> store_counts.errors]
    /\ store_pc' = "idle"
    /\ store_requests' = store_requests + 1
    /\ UNCHANGED <<DOCUMENT_STORE, CHUNK_STORE, store_disk, store_paths, store_index,
                   store_counts>>
    /\ UNCHANGED storeFrame

\* DELETE /documents/{doc_id} for a doc_id of DOCUMENT_STORE
StoreDelete ==
    /\ store_pc = "idle"
    /\ store_requests < MaxStoreRequests
    /\ \E doc_id \in StoreDocIds :
          /\ doc_id \in DOMAIN DOCUMENT_STORE
          /\ LET deleted == chunks_to_delete(doc_id, CHUNK_STORE)
             IN  /\ CHUNK_STORE' = CHUNK_STORE \ deleted
                 /\ DOCUMENT_STORE' =
                        [d \in DOMAIN DOCUMENT_STORE \ {doc_id} |-> DOCUMENT_STORE[d]]
                 /\ store_response' =
                        [request |-> "delete", doc_id |-> doc_id, status_code |-> 200,
                         deleted_chunks |-> Cardinality(deleted),
                         remaining_documents |-> Cardinality(DOMAIN DOCUMENT_STORE'),
                         remaining_chunks |-> Cardinality(CHUNK_STORE')]
    /\ store_requests' = store_requests + 1
    /\ UNCHANGED <<store_disk, store_pc, store_paths, store_index, store_counts>>
    /\ UNCHANGED storeFrame

\* DELETE /documents/{doc_id} for any other doc_id: HTTPException 404
StoreDeleteUnknown ==
    /\ store_pc = "idle"
    /\ store_requests < MaxStoreRequests
    /\ \E doc_id \in StoreDocIds :
          /\ doc_id \notin DOMAIN DOCUMENT_STORE
          /\ store_response' = [request |-> "delete", doc_id |-> doc_id, status_code |-> 404]
    /\ store_requests' = store_requests + 1
    /\ UNCHANGED <<DOCUMENT_STORE, CHUNK_STORE, store_disk, store_pc, store_paths,
                   store_index, store_counts>>
    /\ UNCHANGED storeFrame

NextStore ==
    \/ StoreIngestStart
    \/ StoreIngestFile
    \/ StoreIngestReturn
    \/ StoreDelete
    \/ StoreDeleteUnknown

SpecStore == InitStore /\ [][NextStore]_vars

\* ---------------------------------------------------------------- claims
\* the (chunk_id, score) pairs of a result list, in order
Ranking(results) == [k \in 1..Len(results) |-> <<results[k].chunk_id, results[k].score>>]

\* the chunk ids of both input lists, lexical first, each in list order
InputIds ==
    [i \in 1..Len(bm25_results) |-> bm25_results[i].chunk_id]
        \o [j \in 1..Len(dense_results) |-> dense_results[j].chunk_id]

FirstAppearance(id) == CHOOSE n \in 1..Len(InputIds) :
    InputIds[n] = id /\ \A m \in 1..(n - 1) : InputIds[m] # id

AccumulatedOf(id) ==
    LET k == CHOOSE k \in 1..Len(combined_scores) : combined_scores[k][1] = id
    IN  combined_scores[k][2]

\* C1: combine_results returns at most final_top_k results, each chunk_id at
\* most once, in non-increasing order of accumulated score, and they are the
\* final_top_k highest-scoring chunk ids of the union of both lists: every
\* returned score is the chunk's accumulated score, the list is as long as
\* final_top_k and the union allow, and no omitted chunk has a strictly
\* higher accumulated score than a returned one.
C1_TopKOfUnion ==
    combined_results # <<>> =>
        LET out == combined_results[1]
            n == Len(out)
            returned == {out[k].chunk_id : k \in 1..n}
            union == Range(InputIds)
        IN  /\ n <= final_top_k
            /\ \A p, q \in 1..n : p # q => out[p].chunk_id # out[q].chunk_id
            /\ \A p \in 1..n : \A q \in (p + 1)..n : RLeq(out[q].score, out[p].score)
            /\ returned \subseteq union
            /\ n = IF Cardinality(union) < final_top_k
                   THEN Cardinality(union) ELSE final_top_k
            /\ \A k \in 1..n : out[k].score = AccumulatedOf(out[k].chunk_id)
            /\ \A id \in union \ returned : \A k \in 1..n :
                    RLeq(AccumulatedOf(id), out[k].score)

\* a call that truncated: more chunk ids in the union than final_top_k, and
\* an omitted chunk scores strictly less than a returned one
C1_Witness ==
    /\ combined_results # <<>>
    /\ Len(combined_results[1]) = final_top_k
    /\ Cardinality(Range(InputIds)) > final_top_k
    /\ \E id \in Range(InputIds) \
                {combined_results[1][k].chunk_id : k \in 1..Len(combined_results[1])} :
            RLess(AccumulatedOf(id), combined_results[1][1].score)

\* C2: combine_results is deterministic (a repeated call on the same lists
\* and weights returns the same chunk ids in the same order with the same
\* scores), and two chunks with equal accumulated score appear in their order
\* of first appearance, lexical list first, then the dense list.
C2_DeterministicTies ==
    /\ previous_results # <<>> =>
         Ranking(combined_results[1]) = Ranking(previous_results[1])
    /\ combined_results # <<>> =>
         LET out == combined_results[1]
         IN  \A p \in 1..Len(out) : \A q \in (p + 1)..Len(out) :
                out[p].score = out[q].score
                    => FirstAppearance(out[p].chunk_id) < FirstAppearance(out[q].chunk_id)

\* a second call was made, and its result holds a tie between a chunk of the
\* lexical list and a chunk only the dense list has
C2_Witness ==
    /\ previous_results # <<>>
    /\ LET out == combined_results[1]
       IN  \E p \in 1..Len(out) : \E q \in (p + 1)..Len(out) :
              /\ out[p].score = out[q].score
              /\ out[p].chunk_id \in {bm25_results[i].chunk_id : i \in 1..Len(bm25_results)}
              /\ out[q].chunk_id \notin
                    {bm25_results[i].chunk_id : i \in 1..Len(bm25_results)}

\* the trimmed text of the i-th section of the call in progress
Trimmed(i) == strip(sections[i])

\* C3: deduplication is idempotent: the second call, made on what the first
\* call returned, returns the same sections in the same order.
C3_DedupIdempotent ==
    Len(dedup_calls) = 2 =>
        /\ dedup_calls[2].sections = dedup_calls[1].returned
        /\ dedup_calls[2].returned = dedup_calls[1].returned

\* both calls are done; the first one kept two sections or more and dropped
\* at least one non-empty one
C3_Witness ==
    /\ Len(dedup_calls) = 2
    /\ Len(dedup_calls[1].returned) >= 2
    /\ Cardinality({i \in 1..Len(dedup_calls[1].sections) :
                        strip(dedup_calls[1].sections[i]) # <<>>})
            > Len(dedup_calls[1].returned)

\* C4: the output never holds two sections whose text is identical after
\* trimming, whatever level rejected the earlier of two identical inputs.
C4_NoIdenticalSections ==
    \A p \in 1..Len(unique_sections) : \A q \in (p + 1)..Len(unique_sections) :
        strip(unique_sections[p]) # strip(unique_sections[q])

\* a call returned whose input held the same trimmed text twice, the earlier
\* one rejected by the line-overlap or the fuzzy level
C4_Witness ==
    /\ dedup_pc = "returned"
    /\ \E i \in 1..Len(sections) : \E j \in (i + 1)..Len(sections) :
          /\ Trimmed(i) = Trimmed(j)
          /\ verdicts[i] \in {"lines", "fuzzy"}

\* C5: what a call returns is a subsequence of the trimmed, non-empty input
\* sections in input order: every returned section is the trimmed text of an
\* input, the section kept is the first input with that text, the returned
\* order is the input order, and the first non-empty input is always kept.
C5_OrderedSubsequence ==
    dedup_pc = "returned" =>
        LET out == unique_sections
            FirstIndex(text) == CHOOSE i \in 1..Len(sections) :
                Trimmed(i) = text /\ \A m \in 1..(i - 1) : Trimmed(m) # text
            nonEmpty == {i \in 1..Len(sections) : Trimmed(i) # <<>>}
            kept == {i \in 1..Len(sections) : verdicts[i] = "kept"}
        IN  /\ \A k \in 1..Len(out) :
                  out[k] # <<>> /\ \E i \in 1..Len(sections) : Trimmed(i) = out[k]
            /\ \A k \in 1..Len(out) : \A l \in (k + 1)..Len(out) :
                  FirstIndex(out[k]) < FirstIndex(out[l])
            /\ {FirstIndex(out[k]) : k \in 1..Len(out)} = kept
            /\ nonEmpty # {} =>
                  /\ out # <<>>
                  /\ out[1] = Trimmed(CHOOSE i \in nonEmpty : \A m \in nonEmpty : i <= m)

\* a call returned that skipped an empty section, kept a section, rejected a
\* later one and kept one after that
C5_Witness ==
    /\ dedup_pc = "returned"
    /\ Len(unique_sections) >= 2
    /\ \E e, i, j, k \in 1..Len(sections) :
          /\ e < i /\ i < j /\ j < k
          /\ verdicts[e] = "empty"
          /\ verdicts[i] = "kept"
          /\ verdicts[j] \in {"hash", "lines", "fuzzy"}
          /\ verdicts[k] = "kept"

\* ---- generate_response
PairOf(citation) == <<citation.source, citation.page>>

FirstCarrying(pair) ==
    CHOOSE i \in 1..Len(search_results) :
        /\ PairOf(citation_of(search_results[i])) = pair
        /\ \A m \in 1..(i - 1) : PairOf(citation_of(search_results[m])) # pair

Generated == llm_pc = "returned" /\ context # <<>>

\* C6: when generate_response returns for a non-empty context, no two of the
\* returned citations have equal (source, page), every (source, page) of a
\* result has its citation, each citation is the one built from the first
\* result carrying its pair, and the citations stand in the order of those
\* first results.
C6_CitationsUniqueInOrder ==
    Generated =>
        LET citations == llm_response.citations
        IN  /\ \A p \in 1..Len(citations) : \A q \in (p + 1)..Len(citations) :
                  PairOf(citations[p]) # PairOf(citations[q])
            /\ \A i \in 1..Len(search_results) :
                  \E p \in 1..Len(citations) :
                      PairOf(citations[p]) = PairOf(citation_of(search_results[i]))
            /\ \A p \in 1..Len(citations) :
                  /\ \E i \in 1..Len(search_results) :
                        PairOf(citation_of(search_results[i])) = PairOf(citations[p])
                  /\ citations[p] = citation_of(search_results[FirstCarrying(PairOf(citations[p]))])
            /\ \A p \in 1..Len(citations) : \A q \in (p + 1)..Len(citations) :
                  FirstCarrying(PairOf(citations[p])) < FirstCarrying(PairOf(citations[q]))

\* a response was generated for two results of one source and one page: one
\* citation, the first result's
C6_Witness ==
    /\ Generated
    /\ Len(search_results) = 2
    /\ search_results[1] # search_results[2]
    /\ PairOf(citation_of(search_results[1])) = PairOf(citation_of(search_results[2]))
    /\ Len(llm_response.citations) = 1
    /\ llm_response.citations[1].chunk_id = search_results[1].chunk_id

WholeChunks(ctx) ==
    \E k \in 0..Len(search_results) :
        ctx = Join([i \in 1..k |-> context_chunk_of(search_results[i])])

\* C7: the context string format_context returned is at most
\* max_context_length long and is made of whole formatted chunks only.
C7_ContextWithinLimit ==
    llm_pc \in {"generate", "returned"} =>
        /\ Len(context) <= max_context_length
        /\ WholeChunks(context)

Terminated == llm_pc \in {"returned", "raised"}

EmptyContextCase == format_context(search_results, max_context_length) = <<>>

InsufficientDataReturned ==
    /\ llm_pc = "returned"
    /\ llm_response.answer = InsufficientDataAnswer
    /\ llm_response.citations = <<>>

NoGenerationRequest ==
    \A i \in 1..Len(requests) : requests[i] # "POST /api/generate"

SearchReturned == trace # <<>> /\ ~(ask_pc = "raised" /\ ask_error = "search failed")

ZeroResults == SearchReturned /\ initial_results = <<>>

Called(stage) == \E i \in 1..Len(trace) : trace[i] = stage

FixedAnswerReturned(answer) ==
    /\ ask_response.answer = answer
    /\ ask_response.citations = <<>>
    /\ ask_response.generation_time_ms = 0

\* C9 as stated: when the search returned no results the request does not
\* fail, neither the rerank stage nor the generation stage is ever called,
\* and what is returned is the fixed message with no citations and
\* generation_time_ms = 0.
C9_ZeroResultsSkipRerankAndGeneration ==
    ZeroResults =>
        /\ ~Called("rerank")
        /\ ~Called("generate")
        /\ ask_pc # "raised"
        /\ ask_pc = "returned" =>
              FixedAnswerReturned(IF handler = "process_question"
                                  THEN NoDocumentsAnswer ELSE NoInformationAnswer)

\* C9: when the search returned no results the request does not fail, the
\* generation stage is never called and no request goes to Ollama, and what
\* is returned is the handler's fixed message with no citations and
\* generation_time_ms = 0.  process_question returns straight after the
\* search, without calling the reranker; the demo's ask_question returns
\* after it has called its reranker and its deduplicator on the empty list.
C9_ZeroResultsSkipGeneration ==
    ZeroResults =>
        /\ ~Called("generate")
        /\ requests = <<>> /\ generator_input = <<>>
        /\ ask_pc # "raised"
        /\ ask_pc = "returned" =>
              FixedAnswerReturned(IF handler = "process_question"
                                  THEN NoDocumentsAnswer ELSE NoInformationAnswer)
        /\ handler = "process_question" =>
              ask_pc = "returned" /\ trace = <<"search">>
        /\ handler = "ask_question" =>
              \/ ask_pc = "rerank" /\ trace = <<"search">>
              \/ ask_pc = "deduplicate" /\ trace = <<"search", "rerank">>
              \/ ask_pc = "returned" /\ trace = <<"search", "rerank", "deduplicate">>

\* the demo returned its fixed message for a loaded store that matched
\* nothing, having called the reranker on the way
C9_Witness ==
    /\ handler = "ask_question" /\ CHUNK_STORE # {}
    /\ ZeroResults
    /\ ask_pc = "returned"
    /\ Called("rerank")
    /\ FixedAnswerReturned(NoInformationAnswer)

Answered == ask_pc = "returned" /\ Called("generate")

TextsOf(passages) == [i \in 1..Len(passages) |-> passages[i].text]

\* C10: in every answered request the stages were called in the order
\* search (fusion), rerank, deduplicate, generate, the passages handed to the
\* generator are what the deduplicator returns for the reranked passages, and
\* no two of them have the same trimmed text.
C10_StagesInOrderDeduplicated ==
    Answered =>
        /\ trace = <<"search", "rerank", "deduplicate", "generate">>
        /\ [i \in 1..Len(generator_input) |-> strip(generator_input[i].text)]
              = advanced_deduplication(TextsOf(reranked_results))
        /\ \A i \in 1..Len(generator_input) : \A j \in (i + 1)..Len(generator_input) :
              strip(generator_input[i].text) # strip(generator_input[j].text)

\* ---- HybridSearchService.search
\* C11: every call of combine_results happens with both search tasks
\* returned, and its two arguments are the complete lists the lexical and
\* the dense search returned; a search that returned made exactly one such
\* call.
C11_FusionAfterBothSearches ==
    /\ \A i \in 1..Len(combine_calls) :
          /\ combine_calls[i].bm25_task = "done"
          /\ combine_calls[i].dense_task = "done"
          /\ combine_calls[i].bm25_results = es_hits
          /\ combine_calls[i].dense_results = qdrant_hits
    /\ search_pc = "returned" => Len(combine_calls) = 1
    /\ search_pc # "returned" => combine_calls = <<>>

\* a search returned after combining two non-empty lists that share a chunk
C11_Witness ==
    /\ search_pc = "returned"
    /\ Len(combine_calls) = 1
    /\ Len(es_hits) = 2 /\ Len(qdrant_hits) = 2
    /\ \E i \in 1..2 : \E j \in 1..2 : es_hits[i].chunk_id = qdrant_hits[j].chunk_id
    /\ Len(search_output.results) = 3

ExactlyOneFailed ==
    \/ bm25_task = "failed" /\ dense_task = "done"
    \/ bm25_task = "done" /\ dense_task = "failed"

\* C12: when exactly one of the two searches failed and the other returned,
\* the search call does not fail: it returns the fusion of the surviving
\* list alone and its timing information flags the degraded retrieval.
C12_DegradedRetrieval ==
    (ExactlyOneFailed /\ search_pc \in {"returned", "raised"}) =>
        /\ search_pc = "returned"
        /\ search_output.results =
              final_results(Accumulate(bm25_found, dense_found, bm25_weight, dense_weight),
                            final_top_k).results
        /\ "degraded" \in search_output.timing_info

\* ---- TextChunker
Chunked == chunker_pc = "returned"

TextParts == split_text_by_separators(chunker, document_text, chunker.separators)

\* the normalized source: the words of the non-empty parts, in order
SourceWords == Flatten([p \in 1..Len(TextParts) |-> Words(strip(TextParts[p]))])

\* C13: every chunk create_chunks returned has token_count <= chunk_size.
C13_ChunkSizeBound ==
    Chunked =>
        \A i \in 1..Len(doc_chunks) : doc_chunks[i].token_count <= chunker.chunk_size

KeptChunks == KeptOf(closed_chunks)

\* a chunk without its leading overlap words
CoreWords(chunk) == SubSeq(Words(chunk.text), chunk.lead + 1, Len(Words(chunk.text)))

CoreOf(chunk_list) == Flatten([i \in 1..Len(chunk_list) |-> CoreWords(chunk_list[i])])

\* the leading overlap words of closed chunk i end the chunk kept last
\* before it
LeadIsOverlap(i) ==
    LET chunk == closed_chunks[i]
        before == {j \in 1..(i - 1) : closed_chunks[j].kept}
    IN  chunk.lead > 0 =>
            /\ before # {}
            /\ LET j == CHOOSE j \in before : \A m \in before : m <= j
                   w == Words(closed_chunks[j].text)
               IN  /\ chunk.lead <= Len(w)
                   /\ SubSeq(Words(chunk.text), 1, chunk.lead)
                         = SubSeq(w, Len(w) - chunk.lead + 1, Len(w))

\* C14 as stated: the returned chunks, each without its leading overlap,
\* concatenate to the normalized source text; nothing of the source is
\* missing.
C14_ChunksCoverSource ==
    Chunked =>
        /\ [i \in 1..Len(doc_chunks) |-> doc_chunks[i].text]
              = [i \in 1..Len(KeptChunks) |-> KeptChunks[i].text]
        /\ CoreOf(KeptChunks) = SourceWords

\* C14: the texts the chunker closes, each without its leading overlap,
\* concatenate to the normalized source text; a closed text is missing from
\* the returned chunks exactly when it has fewer than min_chunk_size tokens,
\* so with min_chunk_size <= 1 the returned chunks cover the source; the
\* leading overlap of a chunk repeats the words that end the chunk kept
\* before it.
C14_ChunksCoverSourceButDiscards ==
    Chunked =>
        /\ [i \in 1..Len(doc_chunks) |-> doc_chunks[i].text]
              = [i \in 1..Len(KeptChunks) |-> KeptChunks[i].text]
        /\ CoreOf(closed_chunks) = SourceWords
        /\ \A i \in 1..Len(closed_chunks) :
              /\ closed_chunks[i].kept
                    <=> count_tokens(closed_chunks[i].text) >= chunker.min_chunk_size
              /\ LeadIsOverlap(i)
        /\ chunker.min_chunk_size <= 1 => CoreOf(KeptChunks) = SourceWords

\* a document was cut into chunks with an overlap between two of them and a
\* text below min_chunk_size was dropped
C14_Witness ==
    /\ Chunked
    /\ Len(doc_chunks) >= 2
    /\ \E i \in 1..Len(closed_chunks) : closed_chunks[i].kept /\ closed_chunks[i].lead > 0
    /\ \E i \in 1..Len(closed_chunks) : ~closed_chunks[i].kept
    /\ CoreOf(KeptChunks) # SourceWords

\* chunk i + 1 starts with a non-empty run of words that ends chunk i
SharesOverlap(first, second) ==
    LET a == Words(first)
        b == Words(second)
    IN  \E k \in 1..Len(b) :
            /\ k <= Len(a)
            /\ SubSeq(b, 1, k) = SubSeq(a, Len(a) - k + 1, Len(a))

\* C15: two adjacent returned chunks that both hold words of one part whose
\* token count exceeds chunk_size (an oversized section that had to be split)
\* share an overlap: the second starts with words that end the first.
C15_OverlapPresent ==
    Chunked =>
        \A i \in 1..(Len(KeptChunks) - 1) :
            (\E p \in KeptChunks[i].parts \cap KeptChunks[i + 1].parts :
                count_tokens(TextParts[p]) > chunker.chunk_size)
            => SharesOverlap(KeptChunks[i].text, KeptChunks[i + 1].text)

\* ------------------------------------------------------------------ C16
RulesReturned == rule_pc = "returned"

\* the chunk is one the reranker treats as an existing feature
IsExistingChunk(chunk) == detect_existing_feature(lower(chunk.text), lower(rule_question))

\* the chunk is a roadmap chunk that is not an existing-feature chunk
IsRoadmapOnlyChunk(chunk) == is_roadmap_chunk(lower(chunk.text)) /\ ~IsExistingChunk(chunk)

\* C16: for an existence or feature_inquiry question the list
\* semantic_reranker_with_rules returns has every existing-feature chunk before
\* every roadmap chunk about the same topic, whatever the input scores are
C16_ExistingAboveRoadmap ==
    (RulesReturned /\ rule_question_type \in {"existence", "feature_inquiry"}) =>
        \A i \in 1..Len(rule_output) : \A j \in 1..Len(rule_output) :
            (/\ IsExistingChunk(rule_output[i])
             /\ IsRoadmapOnlyChunk(rule_output[j])
             /\ TopicOf(rule_output[i].text) = TopicOf(rule_output[j].text)) => i < j

\* ------------------------------------------------------------------ C17
RerankReturned == reranker_pc = "returned" /\ rerank_input # <<>>

\* pos names, for every returned result, the input it is: no input twice, the
\* model's score as score and rerank_score, the input's score as original_score
IsSelection(pos) ==
    /\ \A i \in DOMAIN pos : \A j \in DOMAIN pos : i # j => pos[i] # pos[j]
    /\ \A i \in DOMAIN pos :
          rerank_output[i] =
              [rerank_input[pos[i]] EXCEPT !.score = model_scores[pos[i]],
                                           !.rerank_score = model_scores[pos[i]],
                                           !.original_score = rerank_input[pos[i]].score]
    \* the inputs left out have no higher model score than a returned one
    /\ \A p \in (1..Len(rerank_input)) \ {pos[i] : i \in DOMAIN pos} :
          \A i \in DOMAIN pos : RLeq(model_scores[p], model_scores[pos[i]])

\* C17: for a non-empty input rerank_results returns the top_k inputs with the
\* highest model scores, in descending order of that score, each with score
\* and rerank_score set to the model's score and original_score to the input
\* score, and returns nothing that was not in the input
C17_RerankTopKByModelScore ==
    RerankReturned =>
        LET top_k == effective_top_k(reranker_top_k, rerank_top_k)
            n == IF top_k < Len(rerank_input) THEN top_k ELSE Len(rerank_input)
        IN  /\ Len(rerank_output) = n
            /\ \A i \in 1..(n - 1) :
                  RLeq(rerank_output[i + 1].score, rerank_output[i].score)
            /\ \E pos \in [1..n -> 1..Len(rerank_input)] : IsSelection(pos)

\* a call that cut the list and moved a later input to the front
C17_Witness ==
    /\ RerankReturned
    /\ Len(rerank_output) < Len(rerank_input)
    /\ rerank_output[1].chunk_id # rerank_input[1].chunk_id
    /\ RLess(model_scores[1], rerank_output[1].rerank_score)
    /\ rerank_output[1].original_score # rerank_output[1].score

\* ------------------------------------------------------------------ C18
\* the chunks of the document of a path that an index holds
ChunksOfPathIn(index, path) == {c \in index : c.source = path}

ProcessesNewDocument ==
    /\ ingest_pc = "loop" /\ path_index <= Len(ingest_paths)
    /\ path_index' = path_index + 1
    /\ disk[ingest_paths[path_index]].exists
    /\ \A row \in documents :
          row.content_hash # disk[ingest_paths[path_index]].content_hash

\* no index call of the iteration raised
IndexCallsSucceeded ==
    LET result == ingest_results'[Len(ingest_results')]
    IN  ~(result.status = "error" /\ result.error = IndexingFailedMessage)

\* the iteration left both indexes as they were and added an error entry
RejectedDocument ==
    /\ qdrant_points' = qdrant_points /\ es_docs' = es_docs
    /\ ingest_results'[Len(ingest_results')].status = "error"
    /\ Len(ingest_errors') = Len(ingest_errors) + 1
    /\ ingest_errors'[Len(ingest_errors')].path = ingest_paths[path_index]

\* the iteration put the document's chunks into both indexes and reported
\* the status indexed
IndexedDocument ==
    LET path == ingest_paths[path_index]
        n == disk[path].n_chunks
    IN  /\ Cardinality(ChunksOfPathIn(qdrant_points', path) \ qdrant_points) = n
        /\ Cardinality(ChunksOfPathIn(es_docs', path) \ es_docs) = n
        /\ ingest_results'[Len(ingest_results')].status = "indexed"

\* C19: when parsing and both index calls succeed, a new document is rejected
\* exactly when chunking yields no chunk or more than max_chunks_per_doc
\* chunks, with nothing indexed and an error entry for the caller; otherwise
\* it is indexed in both indexes and reported with the status indexed
C19_RejectsExactlyOnChunkCount ==
    [][(ProcessesNewDocument /\ IndexCallsSucceeded) =>
          LET n == disk[ingest_paths[path_index]].n_chunks
          IN  IF n = 0 \/ n > MaxChunksPerDocument
              THEN RejectedDocument
              ELSE IndexedDocument]_vars

\* ------------------------------------------------------------------ C20
\* the details the endpoint has for a failure of the pipeline
GenericDetails == {TimeoutDetail, ModelUnavailableDetail, ConnectionDetail, InternalDetail}

PipelineRaised == endpoint_pc = "raised" /\ pipeline_exception # None

Combined == combined_results # <<>>

\* the positions of a chunk id in a list
PositionsIn(list, id) == {i \in 1..Len(list) : list[i].chunk_id = id}

DistinctIds(list) == \A i, j \in 1..Len(list) : i # j => list[i].chunk_id # list[j].chunk_id

\* the position of a chunk id in what combine_results returned, 0 if it was cut
RankOf(id) ==
    LET hits == PositionsIn(combined_results[1], id)
    IN  IF hits = {} THEN 0 ELSE CHOOSE k \in hits : TRUE

\* C21: with dense_weight = 1 and bm25_weight = 0, two chunks of the dense
\* list whose dense scores differ are returned in the order of their
\* normalized dense scores, whatever the lexical list holds: the one with the
\* lower normalized score is never returned without or before the other
C21_DenseOnlyRanking ==
    (Combined /\ dense_weight = RInt(1) /\ bm25_weight = RInt(0)) =>
        \A i, j \in 1..Len(dense_results) :
            (/\ Cardinality(PositionsIn(dense_results, dense_results[i].chunk_id)) = 1
             /\ Cardinality(PositionsIn(dense_results, dense_results[j].chunk_id)) = 1
             /\ dense_results[i].score # dense_results[j].score
             /\ RLess(dense_results[i].normalized_score, dense_results[j].normalized_score)
             /\ RankOf(dense_results[i].chunk_id) # 0)
            => /\ RankOf(dense_results[j].chunk_id) # 0
               /\ RankOf(dense_results[j].chunk_id) < RankOf(dense_results[i].chunk_id)

\* a dense-only call that returned two chunks of the dense list against the
\* order the lexical list has them in
C21_Witness ==
    /\ Combined /\ dense_weight = RInt(1) /\ bm25_weight = RInt(0)
    /\ DistinctIds(dense_results) /\ DistinctIds(bm25_results)
    /\ \E i, j \in 1..Len(dense_results) : \E p, q \in 1..Len(bm25_results) :
          /\ RLess(dense_results[i].normalized_score, dense_results[j].normalized_score)
          /\ bm25_results[p].chunk_id = dense_results[i].chunk_id
          /\ bm25_results[q].chunk_id = dense_results[j].chunk_id
          /\ RLess(bm25_results[q].score, bm25_results[p].score)
          /\ RankOf(dense_results[i].chunk_id) # 0

\* (score - min) / (max - min) over the scores of the list, 1 where they are
\* all equal
ExpectedNormalized(list, i) ==
    LET lo == CHOOSE k \in 1..Len(list) :
                  \A m \in 1..Len(list) : RLeq(list[k].score, list[m].score)
        hi == CHOOSE k \in 1..Len(list) :
                  \A m \in 1..Len(list) : RLeq(list[m].score, list[k].score)
    IN  IF list[lo].score = list[hi].score THEN RInt(1)
        ELSE RDiv(RSub(list[i].score, list[lo].score),
                  RSub(list[hi].score, list[lo].score))

\* weight times the normalized score of the chunk in the list, 0 if absent
WeightedPart(list, id, weight) ==
    LET hits == PositionsIn(list, id)
    IN  IF hits = {} THEN RInt(0)
        ELSE RMul(weight, ExpectedNormalized(list, CHOOSE i \in hits : TRUE))

\* the raw score of the chunk in the list, 0 if absent
RawPart(list, id) ==
    LET hits == PositionsIn(list, id)
    IN  IF hits = {} THEN RInt(0) ELSE list[CHOOSE i \in hits : TRUE].score

\* C22: for lists with distinct chunk ids, the accumulated score of a chunk
\* is bm25_weight times its normalized lexical score plus dense_weight times
\* its normalized dense score, an absent source counting 0, and the
\* bm25_score and dense_score recorded for it are its raw scores, 0 for a
\* source it is absent from
C22_AccumulatedScore ==
    (Combined /\ DistinctIds(bm25_results) /\ DistinctIds(dense_results)) =>
        /\ \A id \in Range(InputIds) :
              AccumulatedOf(id) =
                  RAdd(WeightedPart(bm25_results, id, bm25_weight),
                       WeightedPart(dense_results, id, dense_weight))
        /\ \A k \in 1..Len(combined_results[1]) :
              LET result == combined_results[1][k]
              IN  /\ result.bm25_score = RawPart(bm25_results, result.chunk_id)
                  /\ result.dense_score = RawPart(dense_results, result.chunk_id)

\* a call on distinct lists that returned a chunk of both lists with a
\* positive part from each, and a chunk only the dense list has
C22_Witness ==
    /\ Combined /\ DistinctIds(bm25_results) /\ DistinctIds(dense_results)
    /\ \E k, l \in 1..Len(combined_results[1]) :
          LET both == combined_results[1][k]
              dense_only == combined_results[1][l]
          IN  /\ RLess(RInt(0), WeightedPart(bm25_results, both.chunk_id, bm25_weight))
              /\ RLess(RInt(0), WeightedPart(dense_results, both.chunk_id, dense_weight))
              /\ both.bm25_score # both.dense_score
              /\ PositionsIn(bm25_results, dense_only.chunk_id) = {}
              /\ dense_only.bm25_score = RInt(0)

\* C23: normalize_scores gives every result of a list (score - min) /
\* (max - min) over that list alone, a value of [0, 1] that is 1 for the
\* maximum and 0 for the minimum; where all scores of the list are equal,
\* also in a list of one, every result gets 1; an empty list stays empty
C23_NormalizedScores ==
    Combined =>
        \A list \in {bm25_results, dense_results} :
            \A i \in 1..Len(list) :
                LET n == list[i].normalized_score
                    least == \A m \in 1..Len(list) : RLeq(list[i].score, list[m].score)
                    most == \A m \in 1..Len(list) : RLeq(list[m].score, list[i].score)
                IN  /\ n = ExpectedNormalized(list, i)
                    /\ n[2] # 0
                    /\ RLeq(RInt(0), n) /\ RLeq(n, RInt(1))
                    /\ most => n = RInt(1)
                    /\ (least /\ ~most) => n = RInt(0)

\* a call whose lexical list had unequal scores and whose dense list had one
\* result, or several with one score
C23_Witness ==
    /\ Combined
    /\ \E i, j \in 1..Len(bm25_results) :
          /\ bm25_results[i].normalized_score = RInt(0)
          /\ bm25_results[j].normalized_score = RInt(1)
    /\ dense_results # <<>>
    /\ \A i \in 1..Len(dense_results) : dense_results[i].normalized_score = RInt(1)
    /\ \A i, j \in 1..Len(dense_results) : dense_results[i].score = dense_results[j].score

\* ------------------------------------------------------- C24 and C25
\* the candidate of the iteration that is about to run, trimmed
Candidate == strip(sections[section_index])

\* more than 50% of the candidate's non-empty trimmed lines are in seen
LinesOverlap(section_clean, seen) ==
    LET section_lines == section_lines_of(section_clean)
    IN  2 * duplicate_lines_of(section_lines, seen) > Len(section_lines)

\* the candidate reaches the fuzzy level
ReachesFuzzyLevel ==
    /\ Candidate # <<>>
    /\ md5(Candidate) \notin seen_hashes
    /\ ~LinesOverlap(Candidate, seen_lines)

\* some accepted section is more similar to the candidate than its threshold
TooSimilar ==
    \E k \in 1..Len(unique_sections) :
        RLess(IF Len(Candidate) < 300 THEN Rat(90, 100) ELSE Rat(85, 100),
              Similarity(Candidate, unique_sections[k]))

DedupStep == dedup_pc = "loop" /\ section_index' = section_index + 1

\* C24: a candidate that passed the hash level and the line-overlap level is
\* rejected exactly when its similarity ratio with at least one accepted
\* section is strictly greater than its threshold, 0.90 for a candidate of
\* fewer than 300 characters and 0.85 otherwise, and is appended otherwise;
\* of two sections of 13 and 14 characters with ratio 26/27 only the first
\* is returned.
C24_FuzzyRejection ==
    /\ [][(DedupStep /\ ReachesFuzzyLevel) =>
            IF TooSimilar
            THEN unique_sections' = unique_sections
            ELSE unique_sections' = Append(unique_sections, Candidate)]_vars
    /\ []((dedup_pc = "returned" /\ sections = <<SecPrice, SecPriceBang>>)
            => unique_sections = <<SecPrice>>)

\* a 300-character candidate is rejected at similarity 520/600 and a
\* 299-character one is accepted at 518/599
C24_Witness ==
    /\ dedup_pc = "returned"
    /\ sections = <<SecLong, SecLongTail, SecAlmostLong>>
    /\ unique_sections = <<SecLong, SecAlmostLong>>
    /\ verdicts = <<"kept", "fuzzy", "kept">>
    /\ Similarity(SecLongTail, SecLong) = Rat(520, 600)
    /\ Similarity(SecAlmostLong, SecLong) = Rat(518, 599)

\* the trimmed non-empty lines of more than 10 characters of a section
LongLines(section_clean) ==
    {l \in Range(section_lines_of(section_clean)) : Len(l) > 10}

\* C25: at every step seen_hashes holds exactly the hashes of the accepted
\* sections and seen_lines exactly their lines of more than 10 characters;
\* a candidate that is not empty and whose hash is new is rejected at the
\* line-overlap level exactly when more than 50% of its non-empty trimmed
\* lines are in seen_lines, and a rejected candidate adds nothing.
C25_SeenSets ==
    /\ [](/\ seen_hashes = {md5(u) : u \in Range(unique_sections)}
          /\ seen_lines = UNION {LongLines(u) : u \in Range(unique_sections)})
    /\ [][DedupStep =>
            /\ (verdicts'[Len(verdicts')] = "lines") <=>
                    /\ Candidate # <<>>
                    /\ md5(Candidate) \notin seen_hashes
                    /\ LinesOverlap(Candidate, seen_lines)
            /\ verdicts'[Len(verdicts')] = "lines" =>
                    unique_sections' = unique_sections
            /\ unique_sections' = unique_sections =>
                    seen_hashes' = seen_hashes /\ seen_lines' = seen_lines]_vars

\* two accepted sections, one with a 3-character line that stays out of
\* seen_lines, then a section both of whose lines are in seen_lines
C25_Witness ==
    /\ dedup_pc = "returned"
    /\ sections = <<SecEmailFax, SecPrice, SecPriceEmail>>
    /\ verdicts = <<"kept", "kept", "lines">>
    /\ unique_sections = <<SecEmailFax, SecPrice>>
    /\ seen_lines = {SecEmail, SecPrice}
    /\ SecFax \in Range(section_lines_of(SecEmailFax))

\* ------------------------------------------------------------------ C26
\* the call is one the /ask handler makes: the type is the classifier's
ClassifiedCall == RulesReturned /\ rule_question_type = QuestionTypeOf[rule_question]

\* C26: the question type fully determines the boost: every question that is
\* classified to the type of the question of the call gives each chunk text
\* of the call the factor the call multiplied its score by
C26_TypeDeterminesBoost ==
    ClassifiedCall =>
        \A q \in RuleQuestions :
            QuestionTypeOf[q] = rule_question_type =>
                \A i \in 1..Len(rule_output) :
                    LET other == RMul(rule_output[i].original_score,
                                      rule_boost(rule_output[i].text, q, rule_question_type))
                    IN  /\ RLeq(other, rule_output[i].reranked_score)
                        /\ RLeq(rule_output[i].reranked_score, other)

\* ------------------------------------------------------------------ C27
\* the step is a call of _load_model of the service that ran the constructor
LoadAttempt(service) == load_calls'[service] = load_calls[service] + 1

\* the step is a call of encode_texts / rerank_results of the service by r
CallBy(r, service) ==
    /\ request_pc[r] \in {"search", "rerank"} /\ ServiceAt(request_pc[r]) = service
    /\ request_pc'[r] \in {AfterCall(request_pc[r]), "failed"}

\* C27: the model of a service instance is loaded at most once over any
\* interleaving of requests, concurrent first uses included: once the handle
\* is set no call constructs a model again and the handle stays; a failed
\* load leaves the handle unset and the flag false, the error reaches the
\* caller, and every call that finds the flag false attempts the load again.
C27_ModelLoadedOnce ==
    /\ [](\A s \in Services :
            model_flag[s] <=> model_handle[s] # None)
    /\ [][\A s \in Services :
            /\ model_flag[s] =>
                    /\ ~LoadAttempt(s)
                    /\ model_flag'[s] /\ model_handle'[s] = model_handle[s]
            /\ \A r \in Requests :
                    /\ (CallBy(r, s) /\ ~model_flag[s]) => LoadAttempt(s)
                    /\ (CallBy(r, s) /\ LoadAttempt(s) /\ ~model_flag'[s]) =>
                            /\ model_handle'[s] = None
                            /\ request_pc'[r] = "failed"
                            /\ request_error'[r] = LoadError]_vars

\* both requests made their first use of the embedding model while it was
\* not loaded: the first constructor call failed, the second gave the model,
\* and the request that came after the failed one used it without loading
C27_Witness ==
    /\ load_calls["embedding"] = 2
    /\ model_handle["embedding"] = Some(2)
    /\ model_flag["embedding"]
    /\ request_count = MaxRequests + 1
    /\ \A r \in Requests : request_pc[r] = "rerank"
    /\ load_calls["reranker"] = 0

\* ------------------------------------------------------------------ C28
\* the step is one call of process_single_document, for the path it names
ProcessedPath == ingest_paths[path_index]

ProcessStep ==
    ingest_pc = "loop" /\ path_index <= Len(ingest_paths) /\ path_index' = path_index + 1

DeleteRequest ==
    store_pc = "idle" /\ store_pc' = "idle" /\ store_requests' = store_requests + 1

DeletedDocId == store_response'.doc_id

\* C29: whatever /ingest and DELETE requests have been served, every chunk of
\* CHUNK_STORE has a doc_id that is a key of DOCUMENT_STORE; deleting a
\* stored document removes the chunks with its doc_id and its entry and
\* nothing else; deleting an unknown doc_id returns 404 and changes neither
\* store.
C29_ChunksBelongToDocuments ==
    /\ [](\A c \in CHUNK_STORE : c.doc_id \in DOMAIN DOCUMENT_STORE)
    /\ [][DeleteRequest =>
            IF DeletedDocId \in DOMAIN DOCUMENT_STORE
            THEN /\ store_response'.status_code = 200
                 /\ CHUNK_STORE' = {c \in CHUNK_STORE : c.doc_id # DeletedDocId}
                 /\ DOMAIN DOCUMENT_STORE' = DOMAIN DOCUMENT_STORE \ {DeletedDocId}
                 /\ \A d \in DOMAIN DOCUMENT_STORE' : DOCUMENT_STORE'[d] = DOCUMENT_STORE[d]
            ELSE /\ store_response'.status_code = 404
                 /\ CHUNK_STORE' = CHUNK_STORE
                 /\ DOCUMENT_STORE' = DOCUMENT_STORE]_vars

\* two documents were ingested and the one with two chunks was deleted: the
\* chunk of the other one is still there
C29_Witness ==
    /\ store_pc = "idle"
    /\ store_response # <<>>
    /\ store_response.request = "delete" /\ store_response.status_code = 200
    /\ store_response.doc_id = md5("t2")
    /\ store_response.deleted_chunks = 2
    /\ DOMAIN DOCUMENT_STORE = {md5("t1")}
    /\ \E c \in CHUNK_STORE : c.doc_id = md5("t1")
    /\ Cardinality(CHUNK_STORE) = 1

\* the step is one iteration of the loop of ingest_documents, for a file that
\* parses and whose content hash is a key of DOCUMENT_STORE
IngestsStoredContent ==
    /\ store_pc = "ingest" /\ store_index <= Len(store_paths)
    /\ store_index' = store_index + 1
    /\ LET doc_data == parse_document(store_paths[store_index], store_disk)
       IN  /\ "raised" \notin DOMAIN doc_data
           /\ doc_data.content_hash \in DOMAIN DOCUMENT_STORE

\* C30: ingesting a document whose content hash is already stored is counted
\* as skipped, indexes nothing, reports no error and leaves DOCUMENT_STORE
\* and CHUNK_STORE as they are
C30_StoredContentIsSkipped ==
    [][IngestsStoredContent =>
        /\ store_counts' = [store_counts EXCEPT !.skipped = @ + 1]
        /\ DOCUMENT_STORE' = DOCUMENT_STORE
        /\ CHUNK_STORE' = CHUNK_STORE]_vars

\* one request ingested the same content from two paths: the second file was
\* skipped and the stores hold the document of the first path only
C30_Witness ==
    /\ store_pc = "idle"
    /\ store_response # <<>>
    /\ store_response.request = "ingest"
    /\ store_response.indexed = 2 /\ store_response.skipped = 1
    /\ store_paths = <<"a.md", "b.md">>
    /\ store_disk["a.md"] = "t2" /\ store_disk["b.md"] = "t2"
    /\ DOMAIN DOCUMENT_STORE = {md5("t2")}
    /\ DOCUMENT_STORE[md5("t2")].path = "a.md"
    /\ \A c \in CHUNK_STORE : c.source = "a.md"
    /\ Cardinality(CHUNK_STORE) = 2
====
